---- MODULE Spec2Model ----
(***************************************************************************)
(* Model of the design-model pipeline: resolveComponent, validate,         *)
(* suggestFixes, applyFixesToIntent and the demo page that chains them.    *)
(*                                                                         *)
(* JavaScript values are records [t, b, n, s] (t is the typeof tag), so    *)
(* that values of different JavaScript types can sit in one map.  Numbers  *)
(* with a fraction (opacity) are kept in hundredths.  Objects that the     *)
(* code compares or mutates by reference (the components of an intent)     *)
(* live in a heap and are named by references.                             *)
(***************************************************************************)
EXTENDS Integers, Sequences, FiniteSets, TLC

VARIABLES
    heap,                \* reference -> component object {type, props}
    intent,              \* the caller's intent {viewId, components: refs}
    constraints,         \* the constraint set handed to the call
    enabledConstraints,  \* Record<string, boolean> handed to validate / suggestFixes
    violationsArg,       \* the violations handed to suggestFixes
    patches,             \* the patches handed to applyFixesToIntent
    pc,                  \* position of the caller
    view,                \* last ResolvedView
    validation,          \* last ValidateResult
    fixes,               \* last SuggestedFix[]
    updatedIntent,       \* last intent returned by applyFixesToIntent
    finalValidation,     \* the ValidateResult of the repaired intent
    viewAgain,           \* the ResolvedView of a repeated call
    page,                \* the React state of the demo page
    flows,               \* the suspended handleRunWithAutoFix invocations
    request,             \* the CallToolRequest handed to the MCP server
    response             \* what the MCP call handler returned or threw

callVars == <<heap, intent, enabledConstraints, violationsArg, patches,
              pc, view, validation, fixes, updatedIntent, finalValidation,
              viewAgain>>

pageVars == <<page, flows>>

vars == <<callVars, constraints, viewAgain, pageVars, request, response>>

-----------------------------------------------------------------------------
(* Bounds of the model *)

MaxComponents == 3

-----------------------------------------------------------------------------
(* JavaScript values *)

Undefined == [t |-> "undefined", b |-> FALSE, n |-> 0, s |-> ""]
Bool(x)   == [t |-> "boolean", b |-> x, n |-> 0, s |-> ""]
Num(x)    == [t |-> "number", b |-> FALSE, n |-> x, s |-> ""]
Str(x)    == [t |-> "string", b |-> FALSE, n |-> 0, s |-> x]

\* ToBoolean of a JavaScript value
Truthy(v) ==
    CASE v.t = "undefined" -> FALSE
      [] v.t = "boolean"   -> v.b
      [] v.t = "number"    -> v.n # 0
      [] OTHER             -> v.s # ""

EmptyMap == [k \in {} |-> Undefined]

\* obj[k]: undefined when the key is absent
Get(obj, k) == IF k \in DOMAIN obj THEN obj[k] ELSE Undefined

\* obj[k] = v
Assign(obj, k, v) == [x \in DOMAIN obj \cup {k} |-> IF x = k THEN v ELSE obj[x]]

Range(seq) == {seq[i] : i \in 1..Len(seq)}

RECURSIVE Flatten(_)
Flatten(seqs) == IF seqs = <<>> THEN <<>> ELSE Head(seqs) \o Flatten(Tail(seqs))

\* Array.prototype.findIndex with a strict-equality predicate (0-based, -1 if none)
RECURSIVE findIndexFrom(_, _, _)
findIndexFrom(seq, x, i) ==
    IF i > Len(seq) THEN -1
    ELSE IF seq[i] = x THEN i - 1
    ELSE findIndexFrom(seq, x, i + 1)

findIndex(seq, x) == findIndexFrom(seq, x, 1)

-----------------------------------------------------------------------------
(* Configuration stores: tokens, contract, base constraint values *)

\* tokens.json flattened to dotted leaf paths
tokensData ==
    [p \in {"color.primary", "color.onPrimary", "color.surface", "color.onSurface",
            "spacing.xs", "spacing.sm", "spacing.md",
            "typography.button.fontSize", "typography.button.fontWeight",
            "typography.button.lineHeight", "radius.md"} |->
        CASE p = "color.primary"   -> "#2563eb"
          [] p = "color.onPrimary" -> "#ffffff"
          [] p = "color.surface"   -> "#f8fafc"
          [] p = "color.onSurface" -> "#0f172a"
          [] p = "spacing.xs"      -> "0.5rem"
          [] p = "spacing.sm"      -> "0.75rem"
          [] p = "spacing.md"      -> "1rem"
          [] p = "typography.button.fontSize"   -> "0.875rem"
          [] p = "typography.button.fontWeight" -> "500"
          [] p = "typography.button.lineHeight" -> "1.25rem"
          [] OTHER                 -> "0.375rem"]

\* contracts/button.json: the enumerations of the props
contractData ==
    [variant |-> <<"primary", "secondary", "ghost">>, size |-> <<"sm", "md">>]

\* constraints.errorMessages
errorMessages ==
    [missingLabel   |-> "Button label is required",
     invalidVariant |-> "Invalid button variant",
     invalidSize    |-> "Invalid button size"]

\* The scalar rule parameters of a constraint set
ConstraintKeys ==
    {"onlyOnePrimaryPerView", "maxPrimaryButtonsPerView", "ghostHasNoBackground",
     "secondaryUsesSurface", "disabledOpacity"}

\* disabledOpacity 0.4, in hundredths
DefaultDisabledOpacity == 40

-----------------------------------------------------------------------------
(* resolveComponent *)

resolveToken(tokenPath, tokens) ==
    IF tokenPath \in DOMAIN tokens THEN tokens[tokenPath] ELSE tokenPath

\* "<number>rem" -> number * 16, anything else -> 0
spacingToPx(spacingValue) ==
    CASE spacingValue = "0.5rem"  -> 8
      [] spacingValue = "0.75rem" -> 12
      [] spacingValue = "1rem"    -> 16
      [] spacingValue = "0.375rem" -> 6
      [] spacingValue = "0.875rem" -> 14
      [] spacingValue = "1.25rem" -> 20
      [] OTHER -> 0

\* lines 86-102: the boolean view of the constraint set
buildEnabledConstraints(c) ==
    [k \in {x \in ConstraintKeys : c[x].t # "undefined"} |->
        IF k \in {"maxPrimaryButtonsPerView", "disabledOpacity"}
        THEN c[k].t = "number"
        ELSE c[k] = Bool(TRUE)]

\* lines 106-143: the schema error of one component, if any
componentErrors(component, contract, c) ==
    IF component.type # "Button"
    THEN <<[code |-> "invalidComponentType",
            message |-> "Unsupported component type: " \o component.type]>>
    ELSE IF ~Truthy(Get(component.props, "label"))
    THEN <<[code |-> "missingLabel", message |-> c.errorMessages.missingLabel]>>
    ELSE IF Get(component.props, "variant") \notin {Str(v) : v \in Range(contract.variant)}
    THEN <<[code |-> "invalidVariant", message |-> c.errorMessages.invalidVariant]>>
    ELSE IF Get(component.props, "size") \notin {Str(v) : v \in Range(contract.size)}
    THEN <<[code |-> "invalidSize", message |-> c.errorMessages.invalidSize]>>
    ELSE <<>>

\* lines 104-144
schemaErrors(h, in, contract, c) ==
    Flatten([i \in 1..Len(in.components) |->
                componentErrors(h[in.components[i]], contract, c)])

\* lines 147-149: the component objects whose variant is primary
primaryButtons(h, in) ==
    SelectSeq(in.components, LAMBDA r : Get(h[r].props, "variant") = Str("primary"))

numericMax(c) == c.maxPrimaryButtonsPerView.t = "number"

\* maxPrimaryAllowed asking the boolean rule before the numeric one
maxPrimaryAllowed_booleanFirst(c) ==
    IF c.onlyOnePrimaryPerView = Bool(TRUE)
    THEN [finite |-> TRUE, n |-> 1]
    ELSE IF numericMax(c)
    THEN [finite |-> TRUE, n |-> c.maxPrimaryButtonsPerView.n]
    ELSE [finite |-> FALSE, n |-> 0]

\* lines 151-159; Infinity is [finite |-> FALSE]
maxPrimaryAllowed(c) ==
    IF numericMax(c)
    THEN [finite |-> TRUE, n |-> c.maxPrimaryButtonsPerView.n]
    ELSE IF c.onlyOnePrimaryPerView = Bool(TRUE)
    THEN [finite |-> TRUE, n |-> 1]
    ELSE [finite |-> FALSE, n |-> 0]

\* lines 162-164
cardinalityConstraintId(c) ==
    IF numericMax(c) THEN "maxPrimaryButtonsPerView" ELSE "onlyOnePrimaryPerView"

\* line 165
cardinalityMessage(constraintId, max, count) ==
    "Constraint violation (" \o constraintId \o "): Maximum " \o ToString(max)
    \o " primary button" \o (IF max = 1 THEN "" ELSE "s")
    \o " allowed per view, but " \o ToString(count) \o " found"

\* node ids counted from one
nodeId_fromOne(index) == "button-" \o ToString(index + 1)

\* `button-${i}`
nodeId(index) == "button-" \o ToString(index)

\* primaryNodeIds naming each primary by its rank among the primaries
primaryNodeIds_byRank(h, in) ==
    [idx \in 1..Len(primaryButtons(h, in)) |-> nodeId(idx - 1)]

\* lines 175-178: the position of each primary object, found by identity
primaryNodeIds(h, in) ==
    LET pb == primaryButtons(h, in)
    IN  [idx \in 1..Len(pb) |-> nodeId(findIndex(in.components, pb[idx]))]

\* A violation without constraintId / nodeIds carries "" and <<>> there
NoConstraintId == ""

\* lines 194-199
errorToViolation(e) ==
    [code |-> e.code, message |-> e.message,
     constraintId |-> NoConstraintId, nodeIds |-> <<>>]

\* styles[key] = value; trace.push({key, value, source}).  In the source texts
\* the arrow character of the code is written "->".
put(acc, key, value, source) ==
    [styles |-> Assign(acc.styles, key, value),
     trace  |-> Append(acc.trace, [key |-> key, value |-> value, source |-> source])]

\* lines 224-254
variantStyles(acc, variant, tokens, c) ==
    IF variant = Str("primary")
    THEN put(put(acc, "backgroundColor", Str(resolveToken("color.primary", tokens)),
                 "token: color.primary"),
             "color", Str(resolveToken("color.onPrimary", tokens)), "token: color.onPrimary")
    ELSE IF variant = Str("secondary")
    THEN IF Truthy(c.secondaryUsesSurface)
         THEN put(put(put(acc, "backgroundColor", Str(resolveToken("color.surface", tokens)),
                          "constraint(active): secondaryUsesSurface -> token: color.surface"),
                      "color", Str(resolveToken("color.onSurface", tokens)),
                      "token: color.onSurface"),
                  "border", Str("1px solid rgba(0,0,0,0.1)"), "rule: secondary variant -> border")
         ELSE acc
    ELSE IF variant = Str("ghost")
    THEN LET a1 == IF Truthy(c.ghostHasNoBackground)
                   THEN put(acc, "backgroundColor", Str("transparent"),
                            "constraint(active): ghostHasNoBackground")
                   ELSE acc
         IN  put(a1, "color", Str(resolveToken("color.primary", tokens)), "token: color.primary")
    ELSE acc

\* lines 256-272
paddingStyles(acc, size, tokens, c) ==
    IF size.t = "string" /\ size.s \in DOMAIN c.sizeMap
    THEN LET sizeMap == c.sizeMap[size.s]
             pxPx == spacingToPx(resolveToken(sizeMap.px, tokens))
             pyPx == spacingToPx(resolveToken(sizeMap.py, tokens))
         IN  put(acc, "padding", Str(ToString(pyPx) \o "px " \o ToString(pxPx) \o "px"),
                 "constraint(active): sizeMap." \o size.s \o ".py -> token: " \o sizeMap.py
                 \o " -> " \o ToString(pyPx) \o "px, constraint(active): sizeMap." \o size.s
                 \o ".px -> token: " \o sizeMap.px \o " -> " \o ToString(pxPx) \o "px")
    ELSE acc

\* lines 274-290
typographyStyles(acc, tokens) ==
    LET a1 == put(acc, "fontSize", Str(resolveToken("typography.button.fontSize", tokens)),
                  "token: typography.button.fontSize")
        a2 == put(a1, "fontWeight", Str(resolveToken("typography.button.fontWeight", tokens)),
                  "token: typography.button.fontWeight")
        a3 == put(a2, "lineHeight", Str(resolveToken("typography.button.lineHeight", tokens)),
                  "token: typography.button.lineHeight")
    IN  put(a3, "borderRadius", Str(resolveToken("radius.md", tokens)), "token: radius.md")

\* disabledStyles taking 0.4 for the opacity whatever the constraint set holds
disabledStyles_fixedOpacity(acc, disabled, c) ==
    IF Truthy(disabled)
    THEN put(put(acc, "opacity", Num(DefaultDisabledOpacity),
                 "constraint(active): disabledOpacity"),
             "cursor", Str("not-allowed"), "rule: disabled -> not-allowed")
    ELSE put(acc, "cursor", Str("pointer"), "rule: default -> pointer")

\* lines 292-307
disabledStyles(acc, disabled, c) ==
    IF Truthy(disabled)
    THEN LET opacityValue == c.disabledOpacity
         IN  put(put(acc, "opacity", opacityValue,
                     "constraint(active): disabledOpacity"
                     \o (IF opacityValue.t = "number"
                         THEN "=" \o ToString(opacityValue.n) ELSE "")),
                 "cursor", Str("not-allowed"), "rule: disabled -> not-allowed")
    ELSE put(acc, "cursor", Str("pointer"), "rule: default -> pointer")

\* borderStyles adding nothing
borderStyles_never(acc, variant) == acc

\* borderStyles without the "if not already added" test
borderStyles_unguarded(acc, variant) ==
    IF variant = Str("secondary")
    THEN put(acc, "border", Str("1px solid rgba(0,0,0,0.1)"), "rule: secondary variant -> border")
    ELSE acc

\* lines 309-313
borderStyles(acc, variant) ==
    IF variant = Str("secondary") /\ ~Truthy(Get(acc.styles, "border"))
    THEN put(acc, "border", Str("1px solid rgba(0,0,0,0.1)"), "rule: secondary variant -> border")
    ELSE acc

\* lines 216-327: the node of the component at 0-based position i
resolveNode(component, i, tokens, c) ==
    LET variant  == Get(component.props, "variant")
        size     == Get(component.props, "size")
        disabled == Get(component.props, "disabled")
        label    == Get(component.props, "label")
        a0 == [styles |-> EmptyMap, trace |-> <<>>]
        a1 == variantStyles(a0, variant, tokens, c)
        a2 == paddingStyles(a1, size, tokens, c)
        a3 == typographyStyles(a2, tokens)
        a4 == disabledStyles(a3, disabled, c)
        a5 == borderStyles(a4, variant)
    IN  [id |-> nodeId(i), type |-> "Button",
         props |-> [label |-> label, variant |-> variant, size |-> size, disabled |-> disabled],
         styles |-> a5.styles, trace |-> a5.trace, decisions |-> <<>>]

\* lines 161-191: the result when the primary count exceeds the maximum
cardinalityFailure(h, in, c, errors, max, count) ==
    LET constraintId == cardinalityConstraintId(c)
        errorMessage == cardinalityMessage(constraintId, max, count)
    IN  [viewId |-> in.viewId, nodes |-> <<>>,
         errors |-> Append(errors, [code |-> "multiplePrimaryButtons",
                                    message |-> errorMessage]),
         violations |-> <<[code |-> "multiplePrimaryButtons",
                           message |-> errorMessage,
                           constraintId |-> constraintId,
                           nodeIds |-> primaryNodeIds(h, in)]>>,
         enabledConstraints |-> buildEnabledConstraints(c),
         appliedConstraints |-> <<>>, activeConstraints |-> c]

\* lines 193-213: the result when a component failed the schema
schemaFailure(in, c, errors) ==
    [viewId |-> in.viewId, nodes |-> <<>>, errors |-> errors,
     violations |-> [i \in 1..Len(errors) |-> errorToViolation(errors[i])],
     enabledConstraints |-> buildEnabledConstraints(c),
     appliedConstraints |-> <<>>, activeConstraints |-> c]

\* styledView whose loop stops one component early
styledView_offByOne(h, in, tokens, c) ==
    [viewId |-> in.viewId,
     nodes |-> [i \in 1..(Len(in.components) - 1) |->
                   resolveNode(h[in.components[i]], i - 1, tokens, c)],
     errors |-> <<>>, violations |-> <<>>,
     enabledConstraints |-> buildEnabledConstraints(c),
     appliedConstraints |-> <<>>, activeConstraints |-> c]

\* lines 215-340: the styled view
styledView(h, in, tokens, c) ==
    [viewId |-> in.viewId,
     nodes |-> [i \in 1..Len(in.components) |->
                   resolveNode(h[in.components[i]], i - 1, tokens, c)],
     errors |-> <<>>, violations |-> <<>>,
     enabledConstraints |-> buildEnabledConstraints(c),
     appliedConstraints |-> <<>>, activeConstraints |-> c]

\* heapAfterResolve with a call that marks every component it styled as disabled
heapAfterResolve_marking(h, in) ==
    [r \in DOMAIN h |->
        IF r \in Range(in.components)
        THEN [h[r] EXCEPT !.props = Assign(@, "disabled", Bool(TRUE))]
        ELSE h[r]]

\* lines 75-340 hold no assignment to intent, to a component or to its props:
\* the objects of the caller after the call
heapAfterResolve(h, in) == h

\* lines 75-340
resolveComponent(h, in, tokens, contract, c) ==
    LET errors == schemaErrors(h, in, contract, c)
        count  == Len(primaryButtons(h, in))
        max    == maxPrimaryAllowed(c)
    IN  IF max.finite /\ count > max.n
        THEN cardinalityFailure(h, in, c, errors, max.n, count)
        ELSE IF Len(errors) > 0
        THEN schemaFailure(in, c, errors)
        ELSE styledView(h, in, tokens, c)

-----------------------------------------------------------------------------
(* validate *)

\* line 28 sharing the caller's object instead of copying it
spreadCopy_sameObject(base) == [shared |-> TRUE, obj |-> base]

\* line 28: { ...constraints }, a new object holding the same top-level values
spreadCopy(base) == [shared |-> FALSE, obj |-> base]

\* overlay writing every enabled key as its boolean
overlay_booleansOnly(obj, enabled) ==
    [k \in DOMAIN obj |->
        IF k \in ConstraintKeys /\ k \in DOMAIN enabled THEN Bool(enabled[k]) ELSE obj[k]]

\* lines 31-45: the assignments of the enabled keys to the object
overlay(obj, enabled) ==
    [k \in DOMAIN obj |->
        IF k \in ConstraintKeys /\ k \in DOMAIN enabled
        THEN CASE k = "maxPrimaryButtonsPerView" ->
                      IF enabled[k] THEN Num(1) ELSE Undefined
               [] k = "disabledOpacity" ->
                      IF enabled[k] THEN Num(DefaultDisabledOpacity) ELSE Undefined
               [] OTHER -> Bool(enabled[k])
        ELSE obj[k]]

\* lines 26-45: the base constraint set overlaid with enabledConstraints
effectiveConstraints(base, enabled) == overlay(spreadCopy(base).obj, enabled)

\* the caller's constraint object once validate returned
constraintsAfterValidate(base, enabled) ==
    IF spreadCopy(base).shared THEN overlay(base, enabled) ELSE base

\* lines 21-58
validate(h, in, enabled, tokens, contract, base) ==
    LET resolved == resolveComponent(h, in, tokens, contract,
                                     effectiveConstraints(base, enabled))
    IN  [valid |-> Len(resolved.violations) = 0,
         violations |-> resolved.violations,
         appliedConstraints |-> resolved.appliedConstraints]

-----------------------------------------------------------------------------
(* Strings that the code takes apart are sequences of one-character strings *)

Digit == <<"0", "1", "2", "3", "4", "5", "6", "7", "8", "9">>

\* String(n) of a non-negative integer
RECURSIVE Decimal(_)
Decimal(n) == IF n < 10 THEN <<Digit[n + 1]>> ELSE Decimal(n \div 10) \o <<Digit[(n % 10) + 1]>>

ComponentsPrefix == <<"/", "c", "o", "m", "p", "o", "n", "e", "n", "t", "s", "/">>
VariantSuffix    == <<"/", "p", "r", "o", "p", "s", "/", "v", "a", "r", "i", "a", "n", "t">>

\* the characters as one string
RECURSIVE Text(_)
Text(chars) == IF chars = <<>> THEN "" ELSE Head(chars) \o Text(Tail(chars))

\* String.prototype.startsWith
startsWith(chars, prefix) ==
    /\ Len(chars) >= Len(prefix)
    /\ SubSeq(chars, 1, Len(prefix)) = prefix

\* String.prototype.split(sep) for a one-character separator
RECURSIVE splitFrom(_, _, _, _)
splitFrom(chars, sep, i, current) ==
    IF i > Len(chars) THEN <<current>>
    ELSE IF chars[i] = sep THEN <<current>> \o splitFrom(chars, sep, i + 1, <<>>)
    ELSE splitFrom(chars, sep, i + 1, Append(current, chars[i]))

split(chars, sep) == splitFrom(chars, sep, 1, <<>>)

IsDigit(ch) == \E d \in 0..9 : Digit[d + 1] = ch

RECURSIVE digitsValue(_, _, _)
digitsValue(chars, i, acc) ==
    IF i > Len(chars) \/ ~IsDigit(chars[i]) THEN acc
    ELSE digitsValue(chars, i + 1, acc * 10 + (CHOOSE d \in 0..9 : Digit[d + 1] = chars[i]))

\* parseInt(text, 10): optional blanks, optional sign, then the leading digits;
\* NaN when there is no digit
RECURSIVE parseInt(_)
parseInt(chars) ==
    IF chars # <<>> /\ Head(chars) = " " THEN parseInt(Tail(chars))
    ELSE LET signed == chars # <<>> /\ Head(chars) \in {"-", "+"}
             body   == IF signed THEN Tail(chars) ELSE chars
             value  == digitsValue(body, 1, 0)
         IN  IF body = <<>> \/ ~IsDigit(Head(body))
             THEN [nan |-> TRUE, n |-> 0]
             ELSE [nan |-> FALSE, n |-> IF signed /\ Head(chars) = "-" THEN 0 - value ELSE value]

-----------------------------------------------------------------------------
(* suggestFixes and applyFixesToIntent *)

\* lines 33-35 and 85-87: the 0-based positions of the primary components
primaryIndexes(h, in) ==
    SelectSeq([i \in 1..Len(in.components) |-> i - 1],
              LAMBDA idx : Get(h[in.components[idx + 1]].props, "variant") = Str("primary"))

\* lines 43-49 and 96-102
downgradePatch(index) ==
    [op |-> "replace",
     path |-> ComponentsPrefix \o Decimal(index) \o VariantSuffix,
     value |-> Str("secondary")]

\* repairTarget taking the rank among the primaries for the position
repairTarget_rank(primaries) == 1

\* repairTarget taking the first primary
repairTarget_first(primaries) == primaries[1]

\* lines 39 and 93: primaryButtons[1].index, the position of the second primary
repairTarget(primaries) == primaries[2]

\* lines 37-80 and 92-131: the fix for one constraint id
fixFor(constraintId, primaries) ==
    LET target == repairTarget(primaries)
        id     == nodeId(target)
        ps     == <<downgradePatch(target)>>
    IN  [constraintId |-> constraintId,
         patches |-> ps,
         decisions |-> <<[nodeId |-> id,
                          decision |-> [type |-> "autoFix",
                                        reason |-> constraintId \o " constraint violation",
                                        action |-> "downgrade to secondary",
                                        details |-> [originalVariant |-> "primary",
                                                     newVariant |-> "secondary",
                                                     constraintId |-> constraintId]]]>>,
         appliedConstraint |-> [id |-> constraintId, scope |-> "view", status |-> "triggered",
                                message |->
                                    IF constraintId = "onlyOnePrimaryPerView"
                                    THEN "Only one primary button per view"
                                    ELSE "Maximum primary buttons per view exceeded",
                                targets |-> <<id>>,
                                resolution |->
                                    "Downgraded " \o id \o
                                    (IF constraintId = "onlyOnePrimaryPerView"
                                     THEN " to secondary to preserve a single primary action"
                                     ELSE " to secondary to meet maximum primary button limit"),
                                patch |-> ps]]

\* fixApplies asking only whether the rule is enabled
fixApplies_enabledOnly(constraintId, violations, enabled) ==
    /\ constraintId \in DOMAIN enabled
    /\ enabled[constraintId]

\* lines 32 and 84: the rule is enabled and one of the violations names it
fixApplies(constraintId, violations, enabled) ==
    /\ constraintId \in DOMAIN enabled
    /\ enabled[constraintId]
    /\ \E i \in 1..Len(violations) : violations[i].constraintId = constraintId

\* lines 27-135
suggestFixes(h, in, violations, enabled) ==
    LET primaries == primaryIndexes(h, in)
        one == IF fixApplies("onlyOnePrimaryPerView", violations, enabled)
                  /\ Len(primaries) > 1
               THEN <<fixFor("onlyOnePrimaryPerView", primaries)>> ELSE <<>>
        max == IF fixApplies("maxPrimaryButtonsPerView", violations, enabled)
                  /\ Len(primaries) > 1
               THEN <<fixFor("maxPrimaryButtonsPerView", primaries)>> ELSE <<>>
    IN  one \o max

\* fixes.flatMap(f => f.patches)
flatPatches(fs) == Flatten([i \in 1..Len(fs) |-> fs[i].patches])

\* JSON.parse(JSON.stringify(component)): a new object; undefined props are dropped
jsonCopy(component) ==
    [type |-> component.type,
     props |-> [k \in {x \in DOMAIN component.props : component.props[x].t # "undefined"} |->
                   component.props[k]]]

\* deepClone copying the intent object only, its components shared
deepClone_shallow(h, in) == [heap |-> h, intent |-> in]

\* line 142: the deep clone, its objects allocated after the existing ones
deepClone(h, in) ==
    LET n    == Len(in.components)
        base == Len(h)
    IN  [heap |-> [r \in 1..(base + n) |->
                      IF r <= base THEN h[r] ELSE jsonCopy(h[in.components[r - base]])],
         intent |-> [viewId |-> in.viewId,
                     components |-> [i \in 1..n |-> base + i]]]

\* line 147: patch.path.split("/").filter(Boolean)
pathParts(path) == SelectSeq(split(path, "/"), LAMBDA part : part # <<>>)

\* lines 145-158: one patch applied to the clone
applyPatch(st, patch) ==
    IF patch.op = "replace" /\ startsWith(patch.path, ComponentsPrefix)
    THEN LET parts == pathParts(patch.path)
         IN  IF Len(parts) >= 4 /\ parts[1] = <<"c", "o", "m", "p", "o", "n", "e", "n", "t", "s">>
             THEN LET componentIndex == parseInt(parts[2])
                  IN  IF /\ ~componentIndex.nan
                         /\ componentIndex.n >= 0
                         /\ componentIndex.n < Len(st.intent.components)
                         /\ parts[3] = <<"p", "r", "o", "p", "s">>
                         /\ parts[4] # <<>>
                      THEN LET ref == st.intent.components[componentIndex.n + 1]
                           IN  [st EXCEPT !.heap[ref].props =
                                   Assign(@, Text(parts[4]), patch.value)]
                      ELSE st
             ELSE st
    ELSE st

\* the loop taking the patches from the last to the first
RECURSIVE applyPatches_lastFirst(_, _)
applyPatches_lastFirst(st, ps) ==
    IF ps = <<>> THEN st
    ELSE applyPatches_lastFirst(applyPatch(st, ps[Len(ps)]), SubSeq(ps, 1, Len(ps) - 1))

\* lines 144-159: the loop over the patches, in order
RECURSIVE applyPatches(_, _)
applyPatches(st, ps) ==
    IF ps = <<>> THEN st ELSE applyPatches(applyPatch(st, Head(ps)), Tail(ps))

\* lines 140-162: returns the heap after the call and the new intent
applyFixesToIntent(h, in, ps) == applyPatches(deepClone(h, in), ps)

-----------------------------------------------------------------------------
(* Inputs: intents and constraint sets *)

NoLabel == "<absent>"

\* A component object as a caller may build it; label NoLabel leaves the key out
Component(type, label, variant, size, disabled) ==
    [type |-> type,
     props |-> [k \in {"label", "variant", "size", "disabled"} \ 
                      (IF label = NoLabel THEN {"label"} ELSE {}) |->
                   CASE k = "label"    -> Str(label)
                     [] k = "variant"  -> Str(variant)
                     [] k = "size"     -> Str(size)
                     [] OTHER          -> Bool(disabled)]]

\* The components of the longer intents
CoreComponents ==
    {Component("Button", "Save", "primary", "md", FALSE),
     Component("Button", "", "primary", "md", FALSE),
     Component("Button", "Save", "secondary", "sm", TRUE),
     Component("Button", "Save", "ghost", "md", FALSE),
     Component("Card", "Save", "primary", "md", FALSE)}

SeqsUpTo(S, lo, hi) == UNION {[1..n -> S] : n \in lo..hi}

\* A fresh heap holding the list's objects, one object per position
HeapOf(list) == [r \in 1..Len(list) |-> list[r]]
IntentOf(list) == [viewId |-> "demo", components |-> [i \in 1..Len(list) |-> i]]

ConstraintSet(onlyOne, max, ghost, surface, opacity) ==
    [onlyOnePrimaryPerView    |-> onlyOne,
     maxPrimaryButtonsPerView |-> max,
     ghostHasNoBackground     |-> ghost,
     secondaryUsesSurface     |-> surface,
     disabledOpacity          |-> opacity,
     sizeMap                  |-> [sm |-> [px |-> "spacing.sm", py |-> "spacing.xs"],
                                   md |-> [px |-> "spacing.md", py |-> "spacing.sm"]],
     errorMessages            |-> errorMessages]

ConstraintSets ==
    {ConstraintSet(o, m, g, s, d) :
        o \in {Undefined, Bool(TRUE), Bool(FALSE)},
        m \in {Undefined, Num(0), Num(1), Num(2)},
        g \in {Bool(TRUE), Bool(FALSE)},
        s \in {Bool(TRUE), Bool(FALSE)},
        d \in {Undefined, Num(DefaultDisabledOpacity)}}

NoView == [viewId |-> "", nodes |-> <<>>, errors |-> <<>>, violations |-> <<>>,
           enabledConstraints |-> EmptyMap, appliedConstraints |-> <<>>,
           activeConstraints |-> EmptyMap]
NoValidation == [valid |-> FALSE, violations |-> <<>>, appliedConstraints |-> <<>>]
NoIntent == [viewId |-> "", components |-> <<>>]
NoRequest == [name |-> "", args |-> {}, bare |-> FALSE]
NoResponse == [kind |-> "none", code |-> "", ran |-> FALSE, result |-> <<>>]

-----------------------------------------------------------------------------
(* The demo page: pills, derived constraints and the handlers' helpers *)

\* T | null as a list of at most one element
Null == <<>>
Some(x) == <<x>>

\* The catalog of constraint templates, in its order
BUTTON_CONSTRAINT_TEMPLATES ==
    <<[id |-> "onlyOnePrimaryPerView",    kind |-> "toggle", defaultValue |-> Undefined],
      [id |-> "ghostHasNoBackground",     kind |-> "toggle", defaultValue |-> Undefined],
      [id |-> "disabledOpacity",          kind |-> "number",
       defaultValue |-> Num(DefaultDisabledOpacity)],
      [id |-> "maxPrimaryButtonsPerView", kind |-> "number", defaultValue |-> Num(1)]>>

\* BUTTON_CONSTRAINT_TEMPLATES.find(t => t.id === templateId)
findTemplate(templateId) ==
    SelectSeq(BUTTON_CONSTRAINT_TEMPLATES, LAMBDA t : t.id = templateId)

\* template.toPatch(value): the parameter default replaces an undefined value
toPatch(template, value) ==
    LET v == IF value.t # "undefined" THEN value
             ELSE IF template.kind = "toggle" THEN Bool(TRUE)
             ELSE template.defaultValue
    IN  [k \in {template.id} |-> v]

\* mergeDeep on objects whose override values are primitives
mergeDeep(base, overrides) ==
    [k \in DOMAIN base \cup {x \in DOMAIN overrides : overrides[x].t # "undefined"} |->
        IF k \in DOMAIN overrides /\ overrides[k].t # "undefined"
        THEN overrides[k] ELSE base[k]]

\* activeConstraints.reduce(...) over the pills
RECURSIVE reducePills(_, _)
reducePills(acc, pills) ==
    IF pills = <<>> THEN acc
    ELSE LET active   == Head(pills)
             template == findTemplate(active.templateId)
         IN  reducePills(IF template # <<>>
                         THEN mergeDeep(acc, toPatch(template[1], active.value))
                         ELSE acc,
                         Tail(pills))

constraintOverrides(activeConstraints) == reducePills(EmptyMap, activeConstraints)

\* derivedConstraints without the line that switches the flag off
derivedConstraints_keepBase(base, activeConstraints) ==
    mergeDeep(base, constraintOverrides(activeConstraints))

\* lines 104-112
derivedConstraints(base, activeConstraints) ==
    LET baseConstraints ==
            IF Len(activeConstraints) = 0
            THEN [base EXCEPT !.onlyOnePrimaryPerView = Bool(FALSE)]
            ELSE base
    IN  mergeDeep(baseConstraints, constraintOverrides(activeConstraints))

\* The page's enabledConstraints: one boolean per pill
RECURSIVE pillsEnabled(_, _)
pillsEnabled(enabled, pills) ==
    IF pills = <<>> THEN enabled
    ELSE LET active   == Head(pills)
             template == findTemplate(active.templateId)
         IN  pillsEnabled(
                 IF template = <<>> THEN enabled
                 ELSE IF template[1].kind = "toggle"
                 THEN Assign(enabled, active.templateId, active.value = Bool(TRUE))
                 ELSE Assign(enabled, active.templateId, active.value.t # "undefined"),
                 Tail(pills))


\* The prompts typed into the page
DefaultPrompt == "Create a primary button with label \"Continue\""
TwoPrimaryPrompt == "Create two primary buttons"
Prompts == {DefaultPrompt, TwoPrimaryPrompt}

\* const x = value; ...: the value is computed once and named in what follows
With(value, Body(_)) == CHOOSE r \in {Body(x) : x \in {value}} : TRUE

\* The characters i..j of a string that exist; "" past its end
slice(str, i, j) ==
    IF i < 1 \/ i > j \/ i > Len(str) THEN ""
    ELSE SubSeq(str, i, IF j > Len(str) THEN Len(str) ELSE j)

\* String.prototype.toLowerCase on the characters of the prompts
RECURSIVE toLowerCase(_)
toLowerCase(str) ==
    IF str = "" THEN ""
    ELSE (CASE slice(str, 1, 1) \in
                   {"A", "B", "C", "D", "E", "F", "G", "H", "I", "J", "K", "L", "M",
                    "N", "O", "P", "Q", "R", "S", "T", "U", "V", "W", "X", "Y", "Z"} ->
                   [A |-> "a", B |-> "b", C |-> "c", D |-> "d", E |-> "e", F |-> "f",
                    G |-> "g", H |-> "h", I |-> "i", J |-> "j", K |-> "k", L |-> "l",
                    M |-> "m", N |-> "n", O |-> "o", P |-> "p", Q |-> "q", R |-> "r",
                    S |-> "s", T |-> "t", U |-> "u", V |-> "v", W |-> "w", X |-> "x",
                    Y |-> "y", Z |-> "z"][slice(str, 1, 1)]
            [] OTHER -> slice(str, 1, 1))
         \o toLowerCase(Tail(str))

\* the literal lit at position i of a pattern with the flag i
literalAt(str, i, lit) ==
    /\ i >= 1
    /\ i + Len(lit) - 1 <= Len(str)
    /\ toLowerCase(slice(str, i, i + Len(lit) - 1)) = lit

\* String.prototype.includes
includes(str, sub) == \E i \in 1..Len(str) : slice(str, i, i + Len(sub) - 1) = sub

\* \s+, \w+ or [^"]* at position i: the position after the longest run
RECURSIVE runEnd(_, _, _)
runEnd(str, i, class) ==
    IF CASE class = "space" -> slice(str, i, i) \in {" ", "\t", "\n"}
         [] class = "word"  ->
               toLowerCase(slice(str, i, i)) \in
                   {"a", "b", "c", "d", "e", "f", "g", "h", "i", "j", "k", "l", "m",
                    "n", "o", "p", "q", "r", "s", "t", "u", "v", "w", "x", "y", "z",
                    "0", "1", "2", "3", "4", "5", "6", "7", "8", "9", "_"}
         [] OTHER           -> slice(str, i, i) \notin {"", "\""}
    THEN runEnd(str, i + 1, class) ELSE i

\* "([^"]+)" with an empty text let through
quotedAt_emptyText(str, i) ==
    LET close == runEnd(str, i + 1, "noQuote")
    IN  IF slice(str, i, i) = "\"" /\ slice(str, close, close) = "\""
        THEN [ok |-> TRUE, text |-> slice(str, i + 1, close - 1), end |-> close + 1]
        ELSE [ok |-> FALSE, text |-> "", end |-> i]

\* "([^"]+)" at position i: the captured text and the position after the match
quotedAt(str, i) ==
    LET close == runEnd(str, i + 1, "noQuote")
    IN  IF slice(str, i, i) = "\"" /\ close > i + 1 /\ slice(str, close, close) = "\""
        THEN [ok |-> TRUE, text |-> slice(str, i + 1, close - 1), end |-> close + 1]
        ELSE [ok |-> FALSE, text |-> "", end |-> i]

\* prompt.match(/"([^"]+)"/g): the captured texts of the successive matches from i
RECURSIVE quotedMatches(_, _)
quotedMatches(str, i) ==
    IF i > Len(str) THEN <<>>
    ELSE IF quotedAt(str, i).ok
    THEN <<quotedAt(str, i).text>> \o quotedMatches(str, quotedAt(str, i).end)
    ELSE quotedMatches(str, i + 1)

\* prompt.match(andPattern), line 37, as the backtracking matcher finds it: the
\* leftmost start; after the first "button" the longest [^"]* with a quoted label
\* behind it, otherwise no label; the last "and" from which the rest matches; the
\* article before its absence. "" is an undefined group.
andMatch(str) ==
    LET none == [ok |-> FALSE, word |-> "", end |-> 0]
        \* \s+(\w+)\s+button at i: the word and the position after "button"
        wordThenButton(i, spacesNeeded) ==
            With(runEnd(str, i, "space"), LAMBDA w :
            With(runEnd(str, w, "word"), LAMBDA e :
            With(runEnd(str, e, "space"), LAMBDA b :
                IF (w > i \/ ~spacesNeeded) /\ e > w /\ b > e
                   /\ literalAt(str, b, "button")
                THEN [ok |-> TRUE, word |-> slice(str, w, e - 1), end |-> b + 6]
                ELSE none)))
        \* (?:a|one) or nothing at t, then the word and "button": the first
        \* alternative from which the rest matches
        articleThenButton(t, articles, spacesNeeded) ==
            With(SelectSeq([n \in 1..Len(articles) |->
                               IF literalAt(str, t, articles[n])
                               THEN wordThenButton(t + Len(articles[n]), spacesNeeded)
                               ELSE none],
                           LAMBDA c : c.ok),
                 LAMBDA found : IF found = <<>> THEN none ELSE Head(found))
        \* and\s+(?:a|one)?\s*(\w+)\s+button[^"]*(?:with\s+label\s+)?(?:"([^"]+)")? at i
        secondButtonAt(i) ==
            With(runEnd(str, i + 3, "space"), LAMBDA t :
            With(articleThenButton(t, <<"a", "one", "">>, FALSE), LAMBDA m :
                IF literalAt(str, i, "and") /\ t > i + 3 /\ m.ok
                THEN [ok |-> TRUE, word |-> m.word,
                      label |-> quotedAt(str, runEnd(str, m.end, "noQuote")).text]
                ELSE [ok |-> FALSE, word |-> "", label |-> ""]))
        \* the last position in lo..hi at which the second button matches, 0 when none
        lastSecondButton(lo, hi) ==
            With({r \in lo..hi : secondButtonAt(r).ok}, LAMBDA at :
                IF at = {} THEN 0 ELSE CHOOSE r \in at : \A x \in at : x <= r)
        \* the groups of a match made of the first button, its label and the second
        groups(first, g2, second) ==
            [ok |-> TRUE, g1 |-> first.word, g2 |-> g2,
             g3 |-> second.word, g4 |-> second.label]
        \* the whole pattern from position i on
        matchAt(i) ==
            With(articleThenButton(i, <<"a", "one">>, TRUE), LAMBDA first :
                IF ~first.ok THEN [ok |-> FALSE]
                ELSE
            With(runEnd(str, first.end, "noQuote"), LAMBDA quote :
            With(quotedAt(str, quote), LAMBDA label :
            With(IF label.ok
                 THEN lastSecondButton(label.end, runEnd(str, label.end, "noQuote") - 1)
                 ELSE 0, LAMBDA after :
            With(lastSecondButton(first.end, quote - 1), LAMBDA before :
                IF after # 0 THEN groups(first, label.text, secondButtonAt(after))
                ELSE IF before # 0 THEN groups(first, "", secondButtonAt(before))
                ELSE [ok |-> FALSE])))))
    IN  With({i \in 1..Len(str) : matchAt(i).ok}, LAMBDA at :
            IF at = {} THEN [ok |-> FALSE]
            ELSE matchAt(CHOOSE i \in at : \A x \in at : i <= x))

\* prompt.match(/labeled\s+(\w+)/i): the captured word, "" when there is no match
labeledMatch(str) ==
    LET word(i) == slice(str, runEnd(str, i + 7, "space"),
                         runEnd(str, runEnd(str, i + 7, "space"), "word") - 1)
        at == {i \in 1..Len(str) :
                 /\ literalAt(str, i, "labeled")
                 /\ runEnd(str, i + 7, "space") > i + 7
                 /\ word(i) # ""}
    IN  IF at = {} THEN "" ELSE word(CHOOSE i \in at : \A x \in at : i <= x)

\* lowerPrompt.match(/(two|2)\s+(primary\s+)?buttons?/) finds a match
twoMatch(str) ==
    \E i \in 1..Len(str) :
        \E n \in {1, 3} :
            /\ slice(str, i, i + n - 1) \in {"two", "2"}
            /\ LET p == runEnd(str, i + n, "space")
                   q == runEnd(str, p + 7, "space")
               IN  /\ p > i + n
                   /\ \/ slice(str, p, p + 5) = "button"
                      \/ /\ slice(str, p, p + 6) = "primary"
                         /\ q > p + 7
                         /\ slice(str, q, q + 5) = "button"

\* lines 149-155
extractVariant(text) ==
    IF includes(toLowerCase(text), "secondary") THEN "secondary"
    ELSE IF includes(toLowerCase(text), "ghost") THEN "ghost"
    ELSE "primary"

\* lines 160-165
extractSize(lowerPrompt) ==
    IF includes(lowerPrompt, "small") \/ includes(lowerPrompt, " sm ") THEN "sm" ELSE "md"

\* lines 171-177; "" for null
extractLabelFromContext(prompt, index) ==
    IF Len(quotedMatches(prompt, 1)) >= index THEN quotedMatches(prompt, 1)[index] ELSE ""

\* lines 32-144: the list of fresh component objects of the returned intent
parseIntent(prompt) ==
    LET \* a || b || c
        firstOf(texts) == Head(SelectSeq(texts, LAMBDA x : x # ""))
    IN  With(toLowerCase(prompt), LAMBDA lowerPrompt :
        With(andMatch(prompt), LAMBDA m :
        With(extractSize(lowerPrompt), LAMBDA size :
        With(includes(lowerPrompt, "disabled"), LAMBDA disabled :
            IF m.ok
            THEN \* lines 39-82: the two buttons of the and-pattern
                 <<Component("Button",
                             firstOf(<<m.g2, extractLabelFromContext(prompt, 1),
                                       "Button 1">>),
                             extractVariant(m.g1), size, disabled),
                   Component("Button",
                             firstOf(<<m.g4, extractLabelFromContext(prompt, 2),
                                       "Button 2">>),
                             extractVariant(m.g3), size, disabled)>>
            ELSE \* lines 84-143: one button, or two of the same kind
        With(quotedMatches(prompt, 1), LAMBDA quoted :
        With(labeledMatch(prompt), LAMBDA labeled :
        With(extractVariant(lowerPrompt), LAMBDA variant :
        With(IF twoMatch(lowerPrompt) THEN 2 ELSE 1, LAMBDA buttonCount :
            [i \in 1..buttonCount |->
                Component("Button",
                          IF buttonCount > 1 /\ variant = "primary" /\ quoted = <<>>
                             /\ labeled = ""
                          THEN "Primary " \o ToString(i)
                          ELSE IF quoted # <<>> THEN quoted[1]
                          ELSE IF labeled # "" THEN labeled ELSE "Continue",
                          variant, size, disabled)]))))))))

\* parseIntent on the prompts typed into the page
parsedPrompts == [prompt \in Prompts |-> parseIntent(prompt)]

\* The decisions of the fixes grouped by node id, in the order of the fixes
nodeDecisionsOf(fs) ==
    LET pairs == Flatten([i \in 1..Len(fs) |-> fs[i].decisions])
        ids   == {pairs[i].nodeId : i \in 1..Len(pairs)}
    IN  [id \in ids |->
            LET mine == SelectSeq(pairs, LAMBDA p : p.nodeId = id)
            IN  [i \in 1..Len(mine) |-> mine[i].decision]]

\* attachDecisions hanging the decisions on the node before the named one
attachDecisions_shifted(resolved, nodeDecisions) ==
    [resolved EXCEPT !.nodes =
        [i \in 1..Len(resolved.nodes) |->
            IF nodeId(i) \in DOMAIN nodeDecisions
            THEN [resolved.nodes[i] EXCEPT !.decisions = nodeDecisions[nodeId(i)]]
            ELSE resolved.nodes[i]]]

\* node.decisions = nodeDecisions[node.id] for the nodes that have an entry
attachDecisions(resolved, nodeDecisions) ==
    [resolved EXCEPT !.nodes =
        [i \in 1..Len(resolved.nodes) |->
            IF resolved.nodes[i].id \in DOMAIN nodeDecisions
            THEN [resolved.nodes[i] EXCEPT !.decisions = nodeDecisions[resolved.nodes[i].id]]
            ELSE resolved.nodes[i]]]

\* The page before its mount effect ran
UnmountedPage ==
    [baseModel        |-> Null,
     prompt           |-> DefaultPrompt,
     activeConstraints |-> <<>>,
     resolvedView     |-> Null,
     errors           |-> <<>>,
     status           |-> "ready",
     autoFixResult    |-> Null,
     showAutoFixFlow  |-> FALSE,
     visibleSteps     |-> {},
     currentStep      |-> Null]

-----------------------------------------------------------------------------
(* Specification of resolveComponent: any intent, any constraint set *)

InitResolve ==
    \* every component as a one-component intent, the core components in the longer ones
    /\ \E list \in SeqsUpTo({Component(ty, l, v, s, d) :
                                 ty \in {"Button", "Card"}, l \in {NoLabel, "", "Save"},
                                 v \in {"primary", "secondary", "ghost", "outline"},
                                 s \in {"sm", "md", "xl"}, d \in BOOLEAN}, 0, 1)
                     \cup SeqsUpTo(CoreComponents, 2, MaxComponents) :
          /\ heap = HeapOf(list)
          /\ intent = IntentOf(list)
    /\ constraints \in ConstraintSets
    /\ enabledConstraints = EmptyMap
    /\ violationsArg = <<>>
    /\ patches = <<>>
    /\ pc = "start"
    /\ view = NoView
    /\ validation = NoValidation
    /\ fixes = <<>>
    /\ updatedIntent = NoIntent
    /\ finalValidation = NoValidation
    /\ viewAgain = NoView
    /\ page = UnmountedPage
    /\ flows = <<>>
    /\ request = NoRequest
    /\ response = NoResponse

Resolve ==
    /\ pc = "start"
    /\ view' = resolveComponent(heap, intent, tokensData, contractData, constraints)
    /\ heap' = heapAfterResolve(heap, intent)
    /\ pc' = "resolved"
    /\ UNCHANGED <<intent, constraints, enabledConstraints, violationsArg, patches,
                   validation, fixes, updatedIntent, finalValidation, viewAgain, pageVars, request, response>>

\* the same call once more, on the same intent object and constraint set
ResolveAgain ==
    /\ pc = "resolved"
    /\ viewAgain' = resolveComponent(heap, intent, tokensData, contractData, constraints)
    /\ heap' = heapAfterResolve(heap, intent)
    /\ pc' = "resolvedAgain"
    /\ UNCHANGED <<intent, constraints, enabledConstraints, violationsArg, patches,
                   view, validation, fixes, updatedIntent, finalValidation, pageVars, request, response>>

NextResolve == Resolve \/ ResolveAgain

SpecResolve == InitResolve /\ [][NextResolve]_vars

-----------------------------------------------------------------------------
(* Specification of the repair round: validate, suggestFixes,              *)
(* applyFixesToIntent, validate again, under one enabled-constraint map    *)

RepairLists == SeqsUpTo(CoreComponents, 0, MaxComponents)

PartialMaps(keys) == UNION {[d -> BOOLEAN] : d \in SUBSET keys}

CardinalityEnabledMaps ==
    PartialMaps({"onlyOnePrimaryPerView", "maxPrimaryButtonsPerView"})

InitRepair ==
    /\ \E list \in RepairLists :
          /\ heap = HeapOf(list)
          /\ intent = IntentOf(list)
    \* constraint sets that differ in the cardinality rules only
    /\ constraints \in
          {ConstraintSet(o, m, Bool(TRUE), Bool(TRUE), Num(DefaultDisabledOpacity)) :
              o \in {Undefined, Bool(TRUE), Bool(FALSE)},
              m \in {Undefined, Num(0), Num(1), Num(2)}}
    /\ enabledConstraints \in CardinalityEnabledMaps
    /\ violationsArg = <<>>
    /\ patches = <<>>
    /\ pc = "start"
    /\ view = NoView
    /\ validation = NoValidation
    /\ fixes = <<>>
    /\ updatedIntent = NoIntent
    /\ finalValidation = NoValidation
    /\ viewAgain = NoView
    /\ page = UnmountedPage
    /\ flows = <<>>
    /\ request = NoRequest
    /\ response = NoResponse

Validate ==
    /\ pc = "start"
    /\ validation' = validate(heap, intent, enabledConstraints, tokensData, contractData,
                              constraints)
    /\ constraints' = constraintsAfterValidate(constraints, enabledConstraints)
    /\ pc' = "validated"
    /\ UNCHANGED <<heap, intent, enabledConstraints, violationsArg, patches,
                   view, fixes, updatedIntent, finalValidation, viewAgain, pageVars, request, response>>

SuggestFixes ==
    /\ pc = "validated"
    /\ violationsArg' = validation.violations
    /\ fixes' = suggestFixes(heap, intent, validation.violations, enabledConstraints)
    /\ pc' = "suggested"
    /\ UNCHANGED <<heap, intent, constraints, enabledConstraints, patches,
                   view, validation, updatedIntent, finalValidation, viewAgain, pageVars, request, response>>

ApplyFixes ==
    /\ pc = "suggested"
    /\ patches' = flatPatches(fixes)
    /\ LET applied == applyFixesToIntent(heap, intent, flatPatches(fixes))
       IN  /\ heap' = applied.heap
           /\ updatedIntent' = applied.intent
    /\ pc' = "applied"
    /\ UNCHANGED <<intent, constraints, enabledConstraints, violationsArg,
                   view, validation, fixes, finalValidation, viewAgain, pageVars, request, response>>

Revalidate ==
    /\ pc = "applied"
    /\ finalValidation' = validate(heap, updatedIntent, enabledConstraints, tokensData,
                                   contractData, constraints)
    /\ constraints' = constraintsAfterValidate(constraints, enabledConstraints)
    /\ pc' = "revalidated"
    /\ UNCHANGED <<heap, intent, enabledConstraints, violationsArg, patches,
                   view, validation, fixes, updatedIntent, viewAgain, pageVars, request, response>>

NextRepair == Validate \/ SuggestFixes \/ ApplyFixes \/ Revalidate

SpecRepair == InitRepair /\ [][NextRepair]_vars

-----------------------------------------------------------------------------
(* Specification of repeated repair rounds: the caller hands the intent    *)
(* returned by applyFixes back to validate for as long as fixes come back  *)

\* the intents and constraint sets of the single round, restricted to the calls
\* that enable onlyOnePrimaryPerView and under which it is the cardinality rule
\* validate enforces (no numeric maximum in the effective constraint set)
InitRounds ==
    /\ InitRepair
    /\ "onlyOnePrimaryPerView" \in DOMAIN enabledConstraints
    /\ enabledConstraints.onlyOnePrimaryPerView
    /\ cardinalityConstraintId(effectiveConstraints(constraints, enabledConstraints))
          = "onlyOnePrimaryPerView"

\* the updated view spec becomes the view spec of the next round; the number of
\* rounds is capped by the number of components
NextRound ==
    /\ pc = "applied"
    /\ fixes # <<>>
    /\ Len(heap) <= MaxComponents * Len(intent.components)
    /\ intent' = updatedIntent
    /\ pc' = "start"
    /\ UNCHANGED <<heap, constraints, enabledConstraints, violationsArg, patches,
                   view, validation, fixes, updatedIntent, finalValidation, viewAgain,
                   pageVars, request, response>>

NextRounds == Validate \/ SuggestFixes \/ ApplyFixes \/ NextRound

SpecRounds == InitRounds /\ [][NextRounds]_vars

-----------------------------------------------------------------------------
(* Specification of validate: any enabled-constraint map over any base set *)

ValidateLists ==
    {<<Component("Button", "Save", "primary", "md", FALSE)>>,
     <<Component("Button", "Save", "primary", "md", FALSE),
       Component("Button", "Save", "primary", "sm", TRUE)>>,
     <<Component("Button", "", "ghost", "md", FALSE),
       Component("Button", "Save", "secondary", "sm", TRUE)>>}

InitValidate ==
    /\ \E list \in ValidateLists :
          /\ heap = HeapOf(list)
          /\ intent = IntentOf(list)
    /\ constraints \in ConstraintSets
    /\ enabledConstraints \in PartialMaps(ConstraintKeys)
    /\ violationsArg = <<>>
    /\ patches = <<>>
    /\ pc = "start"
    /\ view = NoView
    /\ validation = NoValidation
    /\ fixes = <<>>
    /\ updatedIntent = NoIntent
    /\ finalValidation = NoValidation
    /\ viewAgain = NoView
    /\ page = UnmountedPage
    /\ flows = <<>>
    /\ request = NoRequest
    /\ response = NoResponse

ValidateCall ==
    /\ pc = "start"
    /\ validation' = validate(heap, intent, enabledConstraints, tokensData, contractData,
                              constraints)
    /\ constraints' = constraintsAfterValidate(constraints, enabledConstraints)
    /\ pc' = "validated"
    /\ UNCHANGED <<heap, intent, enabledConstraints, violationsArg, patches,
                   view, fixes, updatedIntent, finalValidation, viewAgain, pageVars, request, response>>

NextValidate == ValidateCall

SpecValidate == InitValidate /\ [][NextValidate]_vars

-----------------------------------------------------------------------------
(* Specification of suggestFixes: any intent, violation list and map *)

Violation(code, constraintId, ids) ==
    [code |-> code, message |-> code, constraintId |-> constraintId, nodeIds |-> ids]

InitSuggest ==
    /\ \E list \in RepairLists :
          /\ heap = HeapOf(list)
          /\ intent = IntentOf(list)
    /\ constraints = ConstraintSet(Undefined, Undefined, Undefined, Undefined, Undefined)
    /\ enabledConstraints \in CardinalityEnabledMaps
    /\ violationsArg \in
          SeqsUpTo({Violation("multiplePrimaryButtons", "onlyOnePrimaryPerView",
                              <<"button-0", "button-1">>),
                    Violation("multiplePrimaryButtons", "maxPrimaryButtonsPerView",
                              <<"button-0", "button-1">>),
                    Violation("missingLabel", NoConstraintId, <<>>)}, 0, 2)
    /\ patches = <<>>
    /\ pc = "start"
    /\ view = NoView
    /\ validation = NoValidation
    /\ fixes = <<>>
    /\ updatedIntent = NoIntent
    /\ finalValidation = NoValidation
    /\ viewAgain = NoView
    /\ page = UnmountedPage
    /\ flows = <<>>
    /\ request = NoRequest
    /\ response = NoResponse

Suggest ==
    /\ pc = "start"
    /\ fixes' = suggestFixes(heap, intent, violationsArg, enabledConstraints)
    /\ pc' = "suggested"
    /\ UNCHANGED <<heap, intent, constraints, enabledConstraints, violationsArg, patches,
                   view, validation, updatedIntent, finalValidation, viewAgain, pageVars, request, response>>

NextSuggest == Suggest

SpecSuggest == InitSuggest /\ [][NextSuggest]_vars

-----------------------------------------------------------------------------
(* Specification of applyFixesToIntent: any intent, any patch *)

\* The paths of the patches: a prefix, an index, a middle, a field and a suffix,
\* and three paths that are too short or have an empty part
Paths ==
    {a \o i \o m \o f \o x :
        \* "/components/" "/nodes/" "components/"
        a \in {ComponentsPrefix, <<"/", "n", "o", "d", "e", "s", "/">>,
               Tail(ComponentsPrefix)},
        \* "0" "1" "2" "3" "7" "-1" "1x" "x" "1.5"
        i \in {<<"0">>, <<"1">>, <<"2">>, <<"3">>, <<"7">>, <<"-", "1">>, <<"1", "x">>,
               <<"x">>, <<"1", ".", "5">>},
        \* "/props/" "/attrs/"
        m \in {<<"/", "p", "r", "o", "p", "s", "/">>, <<"/", "a", "t", "t", "r", "s", "/">>},
        \* "variant" "label"
        f \in {<<"v", "a", "r", "i", "a", "n", "t">>, <<"l", "a", "b", "e", "l">>},
        \* "" "/extra"
        x \in {<<>>, <<"/", "e", "x", "t", "r", "a">>}}
    \cup
    \* "/components/0", "/components/0/props", "/components//0/props/variant"
    {ComponentsPrefix \o <<"0">>,
     ComponentsPrefix \o <<"0", "/", "p", "r", "o", "p", "s">>,
     ComponentsPrefix \o <<"/", "0">> \o VariantSuffix}

Patches ==
    {[op |-> o, path |-> q, value |-> Str("secondary")] : o \in {"replace", "add"}, q \in Paths}

InitPatch ==
    /\ \E list \in SeqsUpTo({Component("Button", "Save", "primary", "md", FALSE),
                              Component("Button", "Go", "ghost", "sm", TRUE)},
                             0, MaxComponents) :
          /\ heap = HeapOf(list)
          /\ intent = IntentOf(list)
    /\ constraints = ConstraintSet(Undefined, Undefined, Undefined, Undefined, Undefined)
    /\ enabledConstraints = EmptyMap
    /\ violationsArg = <<>>
    \* one patch of any path, or two patches of a few paths with different values
    /\ patches \in
          {<<q>> : q \in Patches}
          \cup
          (LET few == {[op |-> "replace", path |-> ComponentsPrefix \o i \o f,
                        value |-> Str(v)] :
                          i \in {<<"0">>, <<"1">>},
                          f \in {VariantSuffix, VariantSuffix \o <<"/", "x">>,
                                 <<"/", "p", "r", "o", "p", "s", "/", "l", "a", "b", "e", "l">>,
                                 <<"/", "t", "y", "p", "e", "/", "x">>},
                          v \in {"ghost", "secondary"}}
           IN  {<<q1, q2>> : q1 \in few, q2 \in few})
    /\ pc = "start"
    /\ view = NoView
    /\ validation = NoValidation
    /\ fixes = <<>>
    /\ updatedIntent = NoIntent
    /\ finalValidation = NoValidation
    /\ viewAgain = NoView
    /\ page = UnmountedPage
    /\ flows = <<>>
    /\ request = NoRequest
    /\ response = NoResponse

ApplyPatches ==
    /\ pc = "start"
    /\ LET applied == applyFixesToIntent(heap, intent, patches)
       IN  /\ heap' = applied.heap
           /\ updatedIntent' = applied.intent
    /\ pc' = "patched"
    /\ UNCHANGED <<intent, constraints, enabledConstraints, violationsArg, patches,
                   view, validation, fixes, finalValidation, viewAgain, pageVars, request, response>>

NextPatch == ApplyPatches

SpecPatch == InitPatch /\ [][NextPatch]_vars

-----------------------------------------------------------------------------
(* Specification of the demo page: pills, Run and the auto-fix flow *)

MaxFlows == 1

\* The templates whose pills are added in this specification
PillTemplates == {"onlyOnePrimaryPerView", "maxPrimaryButtonsPerView"}

\* The contents of the base rule file: the cardinality flag either way
BaseConstraintSets ==
    {ConstraintSet(Bool(o), Undefined, Bool(TRUE), Bool(TRUE), Num(DefaultDisabledOpacity)) :
        o \in BOOLEAN}

InitPage ==
    /\ heap = <<>>
    /\ intent = NoIntent
    /\ constraints \in BaseConstraintSets
    /\ enabledConstraints = EmptyMap
    /\ violationsArg = <<>>
    /\ patches = <<>>
    /\ pc = "page"
    /\ view = NoView
    /\ validation = NoValidation
    /\ fixes = <<>>
    /\ updatedIntent = NoIntent
    /\ finalValidation = NoValidation
    /\ viewAgain = NoView
    /\ page = UnmountedPage
    /\ flows = <<>>
    /\ request = NoRequest
    /\ response = NoResponse

\* The mount effect: loadBaseModel
Mount ==
    /\ page.baseModel = Null
    /\ page' = [page EXCEPT !.baseModel = Some([constraints |-> constraints])]
    /\ UNCHANGED <<callVars, constraints, request, response, flows>>

\* Typing into the prompt field
SetPrompt(prompt) ==
    /\ page' = [page EXCEPT !.prompt = prompt]
    /\ UNCHANGED <<callVars, constraints, request, response, flows>>

\* handleAddConstraint without the duplicate check
handleAddConstraint_noCheck(template) ==
    /\ page' = [page EXCEPT !.activeConstraints =
                   Append(@, [templateId |-> template.id,
                              value |-> IF template.kind = "toggle" THEN Bool(TRUE)
                                        ELSE template.defaultValue])]
    /\ UNCHANGED <<callVars, constraints, request, response, flows>>

\* lines 378-387
handleAddConstraint(template) ==
    /\ IF \E i \in 1..Len(page.activeConstraints) :
              page.activeConstraints[i].templateId = template.id
       THEN page' = page
       ELSE LET value == IF template.kind = "toggle" THEN Bool(TRUE)
                         ELSE template.defaultValue
            IN  page' = [page EXCEPT !.activeConstraints =
                            Append(@, [templateId |-> template.id, value |-> value])]
    /\ UNCHANGED <<callVars, constraints, request, response, flows>>

handleRemoveConstraint(templateId) ==
    /\ page' = [page EXCEPT !.activeConstraints =
                   SelectSeq(@, LAMBDA ac : ac.templateId # templateId)]
    /\ UNCHANGED <<callVars, constraints, request, response, flows>>

handleRun ==
    /\ IF page.baseModel = Null
       THEN page' = page
       ELSE LET list     == parsedPrompts[page.prompt]
                derived  == derivedConstraints(page.baseModel[1].constraints,
                                               page.activeConstraints)
                resolved == resolveComponent(HeapOf(list), IntentOf(list), tokensData,
                                             contractData, derived)
                shown    == [resolved EXCEPT !.activeConstraints =
                                constraintOverrides(page.activeConstraints)]
            IN  page' = [page EXCEPT
                    !.resolvedView = Some(shown),
                    !.errors = [i \in 1..Len(resolved.errors) |-> resolved.errors[i].message],
                    !.status = IF Len(resolved.errors) > 0 THEN "error" ELSE "success",
                    !.autoFixResult = Null,
                    !.showAutoFixFlow = FALSE]
    /\ UNCHANGED <<callVars, constraints, request, response, flows>>

\* handleRunWithAutoFix up to its first await
handleRunWithAutoFix ==
    /\ Len(flows) < MaxFlows
    /\ IF page.baseModel = Null
       THEN UNCHANGED <<page, flows>>
       ELSE LET list == parsedPrompts[page.prompt]
            IN  /\ page' = [page EXCEPT !.visibleSteps = {},
                                        !.currentStep = Some(1),
                                        !.showAutoFixFlow = TRUE]
                /\ flows' = Append(flows,
                      [pc |-> "await1",
                       heap |-> HeapOf(list),
                       intent |-> IntentOf(list),
                       activeConstraints |-> page.activeConstraints,
                       enabledConstraints |-> pillsEnabled(EmptyMap, page.activeConstraints),
                       derivedConstraints |->
                           derivedConstraints(page.baseModel[1].constraints,
                                              page.activeConstraints),
                       initialViolations |-> <<>>,
                       fixes |-> <<>>,
                       suggestedFixes |-> <<>>,
                       appliedConstraints |-> <<>>,
                       nodeDecisions |-> EmptyMap,
                       finalIntent |-> IntentOf(list)])
    /\ UNCHANGED <<callVars, constraints, request, response>>

\* after the first await: validate
ResumeValidate(i) ==
    LET f == flows[i]
        validationResult == validate(f.heap, f.intent, f.enabledConstraints, tokensData,
                                     contractData, f.derivedConstraints)
        more == Len(validationResult.violations) > 0
    IN  /\ f.pc = "await1"
        /\ flows' = [flows EXCEPT ![i] =
               [f EXCEPT !.initialViolations = validationResult.violations,
                         !.pc = IF more THEN "await2" ELSE "await5"]]
        /\ page' = [page EXCEPT !.visibleSteps = {1},
                                !.currentStep = Some(IF more THEN 2 ELSE 5)]
        /\ UNCHANGED <<callVars, constraints, request, response>>

\* after the second await: suggestFixes
ResumeSuggest(i) ==
    LET f == flows[i]
        fs == suggestFixes(f.heap, f.intent, f.initialViolations, f.enabledConstraints)
        suggestedFixes == flatPatches(fs)
        more == Len(suggestedFixes) > 0
    IN  /\ f.pc = "await2"
        /\ flows' = [flows EXCEPT ![i] =
               [f EXCEPT !.fixes = fs, !.suggestedFixes = suggestedFixes,
                         !.pc = IF more THEN "await3" ELSE "await5"]]
        /\ page' = [page EXCEPT !.visibleSteps = {1, 2},
                                !.currentStep = Some(IF more THEN 3 ELSE 5)]
        /\ UNCHANGED <<callVars, constraints, request, response>>

\* after the third await: applyFixesToIntent and the collection of decisions
ResumeApply(i) ==
    LET f == flows[i]
        st == applyFixesToIntent(f.heap, f.intent, f.suggestedFixes)
        nodeDecisions == nodeDecisionsOf(f.fixes)
        more == DOMAIN nodeDecisions # {}
    IN  /\ f.pc = "await3"
        /\ flows' = [flows EXCEPT ![i] =
               [f EXCEPT !.heap = st.heap, !.finalIntent = st.intent,
                         !.appliedConstraints =
                             [k \in 1..Len(f.fixes) |-> f.fixes[k].appliedConstraint],
                         !.nodeDecisions = nodeDecisions,
                         !.pc = IF more THEN "await4" ELSE "await5"]]
        /\ page' = [page EXCEPT !.visibleSteps = {1, 2, 3},
                                !.currentStep = Some(IF more THEN 4 ELSE 5)]
        /\ UNCHANGED <<callVars, constraints, request, response>>

\* after the fourth await: the decisions are shown
ResumeDecisions(i) ==
    LET f == flows[i]
    IN  /\ f.pc = "await4"
        /\ flows' = [flows EXCEPT ![i] = [f EXCEPT !.pc = "await5"]]
        /\ page' = [page EXCEPT !.visibleSteps = {1, 2, 3, 4},
                                !.currentStep = Some(5)]
        /\ UNCHANGED <<callVars, constraints, request, response>>

\* the final resolved view of a flow, or Null when the repaired intent is invalid
finalResolvedOf(f) ==
    LET finalCheck == validate(f.heap, f.finalIntent, f.enabledConstraints, tokensData,
                               contractData, f.derivedConstraints)
    IN  IF finalCheck.valid
        THEN Some([attachDecisions(
                       resolveComponent(f.heap, f.finalIntent, tokensData, contractData,
                                        f.derivedConstraints),
                       f.nodeDecisions)
                   EXCEPT !.appliedConstraints = f.appliedConstraints])
        ELSE Null

\* after the fifth await: re-validate, resolve and publish the result
ResumeRevalidate(i) ==
    LET f == flows[i]
        finalCheck == validate(f.heap, f.finalIntent, f.enabledConstraints, tokensData,
                               contractData, f.derivedConstraints)
        finalResolved == finalResolvedOf(f)
    IN  /\ f.pc = "await5"
        /\ flows' = [j \in 1..(Len(flows) - 1) |-> IF j < i THEN flows[j] ELSE flows[j + 1]]
        /\ page' = [page EXCEPT
               !.visibleSteps = {1, 2, 3, 4, 5},
               !.currentStep = Null,
               !.autoFixResult = Some([initialViolations |-> f.initialViolations,
                                       suggestedFixes |-> f.suggestedFixes,
                                       appliedConstraints |-> f.appliedConstraints,
                                       finalResolved |-> finalResolved,
                                       nodeDecisions |-> f.nodeDecisions]),
               !.resolvedView =
                   IF finalResolved # Null
                   THEN Some([finalResolved[1] EXCEPT !.activeConstraints =
                                 constraintOverrides(f.activeConstraints)])
                   ELSE Null,
               !.errors =
                   IF finalResolved # Null THEN <<>>
                   ELSE [k \in 1..Len(finalCheck.violations) |->
                            finalCheck.violations[k].message],
               !.status = IF finalResolved # Null THEN "success" ELSE "error"]
        /\ UNCHANGED <<callVars, constraints, request, response>>

NextPage ==
    \/ Mount
    \/ \E prompt \in Prompts : SetPrompt(prompt)
    \/ \E t \in 1..Len(BUTTON_CONSTRAINT_TEMPLATES) :
          /\ BUTTON_CONSTRAINT_TEMPLATES[t].id \in PillTemplates
          /\ handleAddConstraint(BUTTON_CONSTRAINT_TEMPLATES[t])
    \/ \E templateId \in PillTemplates : handleRemoveConstraint(templateId)
    \/ handleRun
    \/ handleRunWithAutoFix
    \/ \E i \in 1..Len(flows) :
          \/ ResumeValidate(i)
          \/ ResumeSuggest(i)
          \/ ResumeApply(i)
          \/ ResumeDecisions(i)
          \/ ResumeRevalidate(i)

SpecPage == InitPage /\ [][NextPage]_vars

-----------------------------------------------------------------------------
(* Specification of the auto-fix flow under pills whose value was edited *)

\* The values typed into the number field of the maxPrimaryButtonsPerView pill
PillNumbers == {Num(0), Num(2)}

handleUpdateConstraintValue(templateId, value) ==
    /\ page' = [page EXCEPT !.activeConstraints =
                   [k \in 1..Len(@) |->
                       IF @[k].templateId = templateId
                       THEN [@[k] EXCEPT !.value = value] ELSE @[k]]]
    /\ UNCHANGED <<callVars, constraints, request, response, flows>>

NextAutoFix ==
    \/ Mount
    \/ \E prompt \in Prompts : SetPrompt(prompt)
    \/ \E t \in 1..Len(BUTTON_CONSTRAINT_TEMPLATES) :
          /\ BUTTON_CONSTRAINT_TEMPLATES[t].id \in PillTemplates
          /\ handleAddConstraint(BUTTON_CONSTRAINT_TEMPLATES[t])
    \/ \E templateId \in PillTemplates : handleRemoveConstraint(templateId)
    \/ \E value \in PillNumbers :
          \* the number field is rendered for the pills of kind number
          /\ \E k \in 1..Len(page.activeConstraints) :
                page.activeConstraints[k].templateId = "maxPrimaryButtonsPerView"
          /\ handleUpdateConstraintValue("maxPrimaryButtonsPerView", value)
    \/ handleRunWithAutoFix
    \/ \E i \in 1..Len(flows) :
          \/ ResumeValidate(i)
          \/ ResumeSuggest(i)
          \/ ResumeApply(i)
          \/ ResumeDecisions(i)
          \/ ResumeRevalidate(i)

SpecAutoFix == InitPage /\ [][NextAutoFix]_vars

-----------------------------------------------------------------------------
(* Specification of parseIntent: prompts put together from three parts *)

InitParse ==
    /\ heap = <<>>
    /\ intent = NoIntent
    /\ constraints = ConstraintSet(Undefined, Undefined, Undefined, Undefined, Undefined)
    /\ enabledConstraints = EmptyMap
    /\ violationsArg = <<>>
    /\ patches = <<>>
    /\ pc = "start"
    /\ view = NoView
    /\ validation = NoValidation
    /\ fixes = <<>>
    /\ updatedIntent = NoIntent
    /\ finalValidation = NoValidation
    /\ viewAgain = NoView
    /\ page \in
          {[UnmountedPage EXCEPT !.prompt = head \o label \o tail] :
                  head  \in {"", "Create a primary button", "Create one ghost button",
                             "a Secondary  button", "Create two primary buttons",
                             "Create 2 buttons", "make a button labeled Go", "A TALL BUTTON",
                             "one\tsmall button labeled"},
                  label \in {"", " with label \"Continue\"", " \"\"", " \"Save", " \" \"",
                             " with \"primary\" or \"ghost\" on it"},
                  tail  \in {"", " and a ghost button with label \"Cancel\"",
                             " and one small button", " and button", " and a button",
                             " disabled", " and about button \"x\" sm ", " AND ONE Secondary BUTTON"}}
    /\ flows = <<>>
    /\ request = NoRequest
    /\ response = NoResponse

ParseIntent ==
    /\ pc = "start"
    /\ LET list == parseIntent(page.prompt)
       IN  /\ heap' = HeapOf(list)
           /\ intent' = IntentOf(list)
    /\ pc' = "parsed"
    /\ UNCHANGED <<constraints, enabledConstraints, violationsArg, patches,
                   view, validation, fixes, updatedIntent, finalValidation, viewAgain,
                   pageVars, request, response>>

SpecParse == InitParse /\ [][ParseIntent]_vars

-----------------------------------------------------------------------------
(* Specification of pill authoring: every template of the catalog, and Run *)

handleClearConstraints ==
    /\ page' = [page EXCEPT !.activeConstraints = <<>>]
    /\ UNCHANGED <<callVars, constraints, request, response, flows>>

handleAddDefaults ==
    /\ LET defaults == findTemplate("onlyOnePrimaryPerView") \o findTemplate("disabledOpacity")
           missing  == SelectSeq(defaults, LAMBDA template :
                           ~\E k \in 1..Len(page.activeConstraints) :
                               page.activeConstraints[k].templateId = template.id)
           newConstraints ==
               [k \in 1..Len(missing) |->
                   [templateId |-> missing[k].id,
                    value |-> IF missing[k].kind = "toggle" THEN Bool(TRUE)
                              ELSE missing[k].defaultValue]]
       IN  page' = IF Len(newConstraints) > 0
                   THEN [page EXCEPT !.activeConstraints = @ \o newConstraints]
                   ELSE page
    /\ UNCHANGED <<callVars, constraints, request, response, flows>>

NextPills ==
    \/ Mount
    \/ \E prompt \in Prompts : SetPrompt(prompt)
    \/ \E t \in 1..Len(BUTTON_CONSTRAINT_TEMPLATES) :
          handleAddConstraint(BUTTON_CONSTRAINT_TEMPLATES[t])
    \/ \E k \in 1..Len(page.activeConstraints) :
          \* the remove button of a rendered pill
          handleRemoveConstraint(page.activeConstraints[k].templateId)
    \/ \E k \in 1..Len(page.activeConstraints), value \in PillNumbers :
          \* the number field is rendered for the pills of kind number
          /\ findTemplate(page.activeConstraints[k].templateId)[1].kind = "number"
          /\ handleUpdateConstraintValue(page.activeConstraints[k].templateId, value)
    \/ handleClearConstraints
    \/ handleAddDefaults
    \/ handleRun

SpecPills == InitPage /\ [][NextPills]_vars

-----------------------------------------------------------------------------
(* The MCP server: the handler of CallToolRequest and the four tools *)

ToolNames == {"getDesignModel", "validate", "suggestFixes", "applyFixes"}

\* the parameters each case of the switch tests before the tool runs
requiredArgs(name) ==
    CASE name = "validate"     -> {"viewSpec", "enabledConstraints"}
      [] name = "suggestFixes" -> {"viewSpec", "enabledConstraints", "violations"}
      [] name = "applyFixes"   -> {"viewSpec", "fixes"}
      [] OTHER                 -> {}

\* new McpError(code, ...)
McpError(code) == [mcp |-> TRUE, code |-> code]

\* the error of reading .length, .map or .filter of undefined
TypeError == [mcp |-> FALSE, code |-> "TypeError"]

\* a catch clause wrapping whatever it catches
catchClause_wrapAll(error) == McpError("InternalError")

\* the catch clause of the handler
catchClause(error) == IF error.mcp THEN error ELSE McpError("InternalError")

\* the handler throwing: the tool ran iff the error came out of it
thrown(error, ran) ==
    [kind |-> "error", code |-> catchClause(error).code, ran |-> ran, result |-> <<>>]

\* the handler returning { content: [{ type: "text", text: JSON.stringify(result) }] }
returned(result) == [kind |-> "result", code |-> "", ran |-> TRUE, result |-> <<result>>]

\* getDesignModel: the enabledConstraints map built from the rule file
getDesignModel(c) ==
    [enabledConstraints |->
        [k \in {x \in ConstraintKeys : c[x] # Undefined} |->
            IF k \in {"maxPrimaryButtonsPerView", "disabledOpacity"}
            THEN c[k].t = "number"
            ELSE c[k] = Bool(TRUE)]]

\* suggestFixesTool: the patches of all fixes in one list
suggestFixesTool(h, in, violations, enabled) ==
    [fixes |-> flatPatches(suggestFixes(h, in, violations, enabled))]

\* Any tool name, any subset of the parameters, the viewSpec either a ParsedIntent
\* or an object without components (bare)
InitMcp ==
    /\ \E list \in ValidateLists :
          /\ heap = HeapOf(list)
          /\ intent = IntentOf(list)
    /\ constraints \in BaseConstraintSets
    /\ enabledConstraints \in CardinalityEnabledMaps
    /\ violationsArg \in
          {<<>>,
           <<Violation("multiplePrimaryButtons", "onlyOnePrimaryPerView",
                       <<"button-0", "button-1">>)>>}
    /\ patches \in
          {<<>>,
           <<[op |-> "replace", path |-> ComponentsPrefix \o <<"1">> \o VariantSuffix,
              value |-> Str("secondary")]>>}
    /\ pc = "start"
    /\ view = NoView
    /\ validation = NoValidation
    /\ fixes = <<>>
    /\ updatedIntent = NoIntent
    /\ finalValidation = NoValidation
    /\ viewAgain = NoView
    /\ page = UnmountedPage
    /\ flows = <<>>
    /\ request \in
          {[name |-> n, args |-> a, bare |-> b] :
              n \in ToolNames \cup {"resolve"},
              a \in SUBSET {"viewSpec", "enabledConstraints", "violations", "fixes"},
              b \in BOOLEAN}
    /\ response = NoResponse

\* case "getDesignModel"
CallGetDesignModel ==
    /\ pc = "start"
    /\ request.name = "getDesignModel"
    /\ response' = returned(getDesignModel(constraints))
    /\ pc' = "responded"
    /\ UNCHANGED <<heap, intent, constraints, enabledConstraints, violationsArg, patches,
                   view, validation, fixes, updatedIntent, finalValidation, viewAgain,
                   pageVars, request>>

\* case "validate"
CallValidate ==
    /\ pc = "start"
    /\ request.name = "validate"
    /\ IF ~(requiredArgs("validate") \subseteq request.args)
       THEN /\ response' = thrown(McpError("InvalidParams"), FALSE)
            /\ UNCHANGED <<validation, constraints>>
       ELSE IF request.bare
       THEN /\ response' = thrown(TypeError, TRUE)
            /\ UNCHANGED <<validation, constraints>>
       ELSE LET result == validate(heap, intent, enabledConstraints, tokensData,
                                   contractData, constraints)
            IN  /\ response' = returned(result)
                /\ validation' = result
                /\ constraints' = constraintsAfterValidate(constraints, enabledConstraints)
    /\ pc' = "responded"
    /\ UNCHANGED <<heap, intent, enabledConstraints, violationsArg, patches,
                   view, fixes, updatedIntent, finalValidation, viewAgain,
                   pageVars, request>>

\* case "suggestFixes"; suggestFixes reads intent.components iff one of its two
\* branches is taken (part_004 lines 32-33 and 84-85)
CallSuggestFixes ==
    /\ pc = "start"
    /\ request.name = "suggestFixes"
    /\ IF ~(requiredArgs("suggestFixes") \subseteq request.args)
       THEN /\ response' = thrown(McpError("InvalidParams"), FALSE)
            /\ UNCHANGED fixes
       ELSE IF /\ request.bare
               /\ \/ fixApplies("onlyOnePrimaryPerView", violationsArg, enabledConstraints)
                  \/ fixApplies("maxPrimaryButtonsPerView", violationsArg,
                                enabledConstraints)
       THEN /\ response' = thrown(TypeError, TRUE)
            /\ UNCHANGED fixes
       ELSE LET result == IF request.bare
                          THEN [fixes |-> <<>>]
                          ELSE suggestFixesTool(heap, intent, violationsArg,
                                                enabledConstraints)
            IN  /\ response' = returned(result)
                /\ fixes' = result.fixes
    /\ pc' = "responded"
    /\ UNCHANGED <<heap, intent, constraints, enabledConstraints, violationsArg, patches,
                   view, validation, updatedIntent, finalValidation, viewAgain,
                   pageVars, request>>

\* case "applyFixes"; applyFixesToIntent reads updatedIntent.components.length iff
\* a patch passes the tests that precede it (part_004 lines 145-150)
CallApplyFixes ==
    /\ pc = "start"
    /\ request.name = "applyFixes"
    /\ IF ~(requiredArgs("applyFixes") \subseteq request.args)
       THEN /\ response' = thrown(McpError("InvalidParams"), FALSE)
            /\ UNCHANGED <<heap, updatedIntent>>
       ELSE IF request.bare
       THEN /\ response' =
                   IF \E i \in 1..Len(patches) :
                         /\ patches[i].op = "replace"
                         /\ startsWith(patches[i].path, ComponentsPrefix)
                         /\ LET parts == pathParts(patches[i].path)
                            IN  /\ Len(parts) >= 4
                                /\ parts[1] = <<"c", "o", "m", "p", "o", "n", "e", "n", "t", "s">>
                                /\ ~parseInt(parts[2]).nan
                                /\ parseInt(parts[2]).n >= 0
                   THEN thrown(TypeError, TRUE)
                   ELSE returned([viewSpec |-> <<>>])
            /\ UNCHANGED <<heap, updatedIntent>>
       ELSE LET applied == applyFixesToIntent(heap, intent, patches)
            IN  /\ heap' = applied.heap
                /\ updatedIntent' = applied.intent
                /\ response' = returned([viewSpec |-> applied.intent])
    /\ pc' = "responded"
    /\ UNCHANGED <<intent, constraints, enabledConstraints, violationsArg, patches,
                   view, validation, fixes, finalValidation, viewAgain,
                   pageVars, request>>

\* default
CallUnknownTool ==
    /\ pc = "start"
    /\ request.name \notin ToolNames
    /\ response' = thrown(McpError("MethodNotFound"), FALSE)
    /\ pc' = "responded"
    /\ UNCHANGED <<heap, intent, constraints, enabledConstraints, violationsArg, patches,
                   view, validation, fixes, updatedIntent, finalValidation, viewAgain,
                   pageVars, request>>

NextMcp ==
    \/ CallGetDesignModel
    \/ CallValidate
    \/ CallSuggestFixes
    \/ CallApplyFixes
    \/ CallUnknownTool

SpecMcp == InitMcp /\ [][NextMcp]_vars


-----------------------------------------------------------------------------
(* Claims about resolveComponent *)

\* The positions (1-based) of the intent's primary components, ascending
PrimaryPositions(h, in) ==
    {i \in 1..Len(in.components) : Get(h[in.components[i]].props, "variant") = Str("primary")}

RECURSIVE Ascending(_)
Ascending(S) ==
    IF S = {} THEN <<>>
    ELSE LET m == CHOOSE x \in S : \A y \in S : x <= y
         IN  <<m>> \o Ascending(S \ {m})

\* The rule of the specification for the allowed maximum
CountExceedsAllowed(count, c) ==
    IF c.maxPrimaryButtonsPerView.t = "number" THEN count > c.maxPrimaryButtonsPerView.n
    ELSE IF c.onlyOnePrimaryPerView = Bool(TRUE) THEN count > 1
    ELSE FALSE

CardinalityViolations(v) ==
    SelectSeq(v.violations, LAMBDA x : x.code = "multiplePrimaryButtons")

\* C1 as stated: after resolveComponent, nodes is non-empty if and only if
\* violations is empty, for every intent (the empty intent included).
C1_AllOrNothing ==
    pc = "resolved" => (Len(view.nodes) > 0 <=> Len(view.violations) = 0)

\* C1 amended: non-empty nodes imply empty violations, and empty violations
\* imply exactly one node per component (so the equivalence holds for every
\* intent with at least one component; the empty intent yields neither).
C1_AllOrNothingAmended ==
    pc = "resolved" =>
        /\ Len(view.nodes) > 0 => Len(view.violations) = 0
        /\ Len(view.violations) = 0 => Len(view.nodes) = Len(intent.components)

C1_Witness ==
    /\ pc = "resolved"
    /\ Len(view.nodes) >= 2
    /\ Len(view.violations) = 0

\* C3: when the primary count exceeds the allowed maximum the view has no
\* nodes and one multiplePrimaryButtons violation whose nodeIds are button-<i>
\* for exactly the primary positions i, in document order; otherwise there is
\* no multiplePrimaryButtons violation.
C3_CardinalityNodeIds ==
    pc = "resolved" =>
        LET pos  == Ascending(PrimaryPositions(heap, intent))
            card == CardinalityViolations(view)
        IN  IF CountExceedsAllowed(Len(pos), constraints)
            THEN /\ view.nodes = <<>>
                 /\ Len(card) = 1
                 /\ card[1].nodeIds = [k \in 1..Len(pos) |-> "button-" \o ToString(pos[k] - 1)]
            ELSE card = <<>>

C3_Witness ==
    /\ pc = "resolved"
    /\ Len(CardinalityViolations(view)) = 1
    /\ CardinalityViolations(view)[1].nodeIds = <<"button-1", "button-2">>

\* C4: the allowed maximum is the numeric maxPrimaryButtonsPerView when it is a
\* number, else 1 when onlyOnePrimaryPerView is true, else unbounded; the
\* violation names maxPrimaryButtonsPerView exactly when the number was used.
C4_AllowedMaximum ==
    pc = "resolved" =>
        LET count == Cardinality(PrimaryPositions(heap, intent))
            card  == CardinalityViolations(view)
            allowed ==
                IF constraints.maxPrimaryButtonsPerView.t = "number"
                THEN count <= constraints.maxPrimaryButtonsPerView.n
                ELSE IF constraints.onlyOnePrimaryPerView = Bool(TRUE)
                THEN count <= 1
                ELSE TRUE
        IN  /\ allowed <=> card = <<>>
            /\ \A i \in 1..Len(card) :
                  card[i].constraintId =
                      IF constraints.maxPrimaryButtonsPerView.t = "number"
                      THEN "maxPrimaryButtonsPerView"
                      ELSE "onlyOnePrimaryPerView"

C4_Witness ==
    /\ pc = "resolved"
    /\ constraints.maxPrimaryButtonsPerView = Num(2)
    /\ constraints.onlyOnePrimaryPerView = Bool(TRUE)
    /\ Cardinality(PrimaryPositions(heap, intent)) = 2
    /\ Len(view.nodes) = 2

\* C9: in every resolved node each key of styles has exactly one trace entry.
C9_ProvenanceComplete ==
    pc = "resolved" =>
        \A i \in 1..Len(view.nodes) :
            \A k \in DOMAIN view.nodes[i].styles :
                Cardinality({j \in 1..Len(view.nodes[i].trace) :
                                view.nodes[i].trace[j].key = k}) = 1

C9_Witness ==
    /\ pc = "resolved"
    /\ constraints.secondaryUsesSurface = Bool(TRUE)
    /\ \E i \in 1..Len(view.nodes) :
          /\ view.nodes[i].props.variant = Str("secondary")
          /\ view.nodes[i].props.disabled = Bool(TRUE)
          /\ {"border", "opacity", "padding"} \subseteq DOMAIN view.nodes[i].styles

CodeCount(list, code) == Cardinality({i \in 1..Len(list) : list[i].code = code})

\* C10 as stated: errors and violations of a returned view hold the same codes
\* with the same multiplicities, whatever else is wrong with the view.
C10_ErrorsMatchViolations ==
    pc = "resolved" =>
        \A code \in {view.errors[i].code : i \in 1..Len(view.errors)}
                    \cup {view.violations[i].code : i \in 1..Len(view.violations)} :
            CodeCount(view.errors, code) = CodeCount(view.violations, code)

-----------------------------------------------------------------------------
(* Claims about the repair round *)

ConstraintIdsOf(violations) ==
    {violations[i].constraintId : i \in 1..Len(violations)} \ {NoConstraintId}

\* C2 as stated, for the rounds in which a fix was returned: a constraint id
\* that validate reported and suggestFixes fixed is not reported again once
\* all returned patches are applied and the intent is re-validated under the
\* same enabled-constraint map.
C2_IdempotentRepair ==
    pc = "revalidated" =>
        \A i \in 1..Len(fixes) :
            fixes[i].constraintId \in ConstraintIdsOf(validation.violations) =>
                fixes[i].constraintId \notin ConstraintIdsOf(finalValidation.violations)

-----------------------------------------------------------------------------
(* Claims about suggestFixes *)

FixesFor(fs, constraintId) == SelectSeq(fs, LAMBDA f : f.constraintId = constraintId)

\* "/components/<k>/props/variant" for a one-digit k
VariantPath(k) ==
    <<"/", "c", "o", "m", "p", "o", "n", "e", "n", "t", "s", "/", ToString(k),
      "/", "p", "r", "o", "p", "s", "/", "v", "a", "r", "i", "a", "n", "t">>

\* the one patch the claim expects: the second primary in document order
ExpectedPatches(h, in) ==
    <<[op |-> "replace",
       path |-> VariantPath(Ascending(PrimaryPositions(h, in))[2] - 1),
       value |-> Str("secondary")]>>

NamedIn(violations, constraintId) ==
    \E i \in 1..Len(violations) : violations[i].constraintId = constraintId

\* C5 as stated: with two or more primaries, every constraint id among the
\* violations gets exactly one fix with the one patch on the second primary.
C5_OnePatchPerViolatedRule ==
    (pc = "suggested" /\ Cardinality(PrimaryPositions(heap, intent)) >= 2) =>
        \A c \in {"onlyOnePrimaryPerView", "maxPrimaryButtonsPerView"} :
            NamedIn(violationsArg, c) =>
                /\ Len(FixesFor(fixes, c)) = 1
                /\ FixesFor(fixes, c)[1].patches = ExpectedPatches(heap, intent)

\* C5 amended: the fix for a constraint id is returned exactly when that id is
\* also true in enabledConstraints; it then holds the one patch on the second
\* primary, and otherwise nothing is returned for the id.
C5_OnePatchPerEnabledViolatedRule ==
    (pc = "suggested" /\ Cardinality(PrimaryPositions(heap, intent)) >= 2) =>
        \A c \in {"onlyOnePrimaryPerView", "maxPrimaryButtonsPerView"} :
            IF NamedIn(violationsArg, c) /\ c \in DOMAIN enabledConstraints
                                         /\ enabledConstraints[c]
            THEN /\ Len(FixesFor(fixes, c)) = 1
                 /\ FixesFor(fixes, c)[1].patches = ExpectedPatches(heap, intent)
            ELSE FixesFor(fixes, c) = <<>>

C5_Witness ==
    /\ pc = "suggested"
    /\ Ascending(PrimaryPositions(heap, intent)) = <<1, 3>>
    /\ Len(fixes) = 1
    /\ fixes[1].patches[1].path = VariantPath(2)

-----------------------------------------------------------------------------
(* Claims about applyFixesToIntent *)

\* the intents have the same viewId and, position by position, equal components
SameStructure(h1, in1, h2, in2) ==
    /\ in1.viewId = in2.viewId
    /\ Len(in1.components) = Len(in2.components)
    /\ \A i \in 1..Len(in1.components) : h1[in1.components[i]] = h2[in2.components[i]]

\* the path is exactly /components/<index>/props/<field>, index an integer of 0..n-1
ExactShape(path, n) ==
    \E i \in 0..(n - 1) :
        LET head == <<"/", "c", "o", "m", "p", "o", "n", "e", "n", "t", "s", "/", ToString(i),
                      "/", "p", "r", "o", "p", "s", "/">>
        IN  /\ Len(path) > Len(head)
            /\ SubSeq(path, 1, Len(head)) = head
            /\ \A j \in (Len(head) + 1)..Len(path) : path[j] # "/"

\* C7 as stated: a patch that is not a replace of exactly
\* /components/<index>/props/<field>, index in range, leaves the returned
\* intent structurally equal to the input.
C7_OtherPatchesIgnored ==
    pc = "patched" =>
        ((\A i \in 1..Len(patches) :
              ~(patches[i].op = "replace"
                /\ ExactShape(patches[i].path, Len(intent.components))))
         => SameStructure(heap, updatedIntent, heap, intent))

\* C8: applyFixesToIntent leaves the caller's intent and every object it
\* reaches as they were, and the returned intent shares no component with it.
C8_PatchPurity ==
    [][(pc = "start" /\ pc' = "patched") =>
          /\ intent' = intent
          /\ \A r \in DOMAIN heap : r \in DOMAIN heap' /\ heap'[r] = heap[r]
          /\ Range(updatedIntent'.components) \cap Range(intent.components) = {}]_vars

C8_Witness ==
    /\ pc = "patched"
    /\ Len(intent.components) >= 2
    /\ ~SameStructure(heap, updatedIntent, heap, intent)

\* The flow's intent has exactly two components, both primary
TwoPrimaryIntent(f) ==
    /\ Len(f.intent.components) = 2
    /\ primaryIndexes(f.heap, f.intent) = <<0, 1>>

OnlyOnePillEnabled(f) ==
    /\ "onlyOnePrimaryPerView" \in DOMAIN f.enabledConstraints
    /\ f.enabledConstraints["onlyOnePrimaryPerView"]

\* A published result with no violations and the nodes <primary, repaired secondary>
RepairedPair(result) ==
    /\ result.finalResolved # Null
    /\ LET resolved == result.finalResolved[1]
       IN  /\ Len(resolved.violations) = 0
           /\ Len(resolved.nodes) = 2
           /\ resolved.nodes[1].id = "button-0"
           /\ resolved.nodes[1].props.variant = Str("primary")
           /\ Len(resolved.nodes[1].decisions) = 0
           /\ resolved.nodes[2].id = "button-1"
           /\ resolved.nodes[2].props.variant = Str("secondary")
           /\ Len(resolved.nodes[2].decisions) = 1
           /\ resolved.nodes[2].decisions[1].type = "autoFix"

\* C6: an auto-fix flow over an intent with two primary components at positions
\* 0 and 1, started with the onlyOnePrimaryPerView pill enabled, publishes on
\* completion a result with zero violations and two nodes: button-0 still
\* primary with no decisions, button-1 secondary with exactly one decision of
\* type autoFix.
C6_AutoFixRepairsSecondPrimary ==
    [][\A i \in 1..Len(flows) :
          (/\ ResumeRevalidate(i)
           /\ TwoPrimaryIntent(flows[i])
           /\ OnlyOnePillEnabled(flows[i]))
          => (page'.autoFixResult # Null /\ RepairedPair(page'.autoFixResult[1]))]_vars

C6_Witness ==
    /\ page.autoFixResult # Null
    /\ RepairedPair(page.autoFixResult[1])
    /\ Len(page.autoFixResult[1].initialViolations) = 1
    /\ page.autoFixResult[1].initialViolations[1].constraintId = "onlyOnePrimaryPerView"
    /\ page.status = "success"

-----------------------------------------------------------------------------
(* Claims about the consistency of one auto-fix invocation *)

\* the final validate of the flow's repaired intent
FinalCheckOf(f) ==
    validate(f.heap, f.finalIntent, f.enabledConstraints, tokensData, contractData,
             f.derivedConstraints)

\* C11 as stated: whenever the final validate of the repaired intent reports
\* valid, the final resolveComponent of the same intent, published by the same
\* invocation, has no violations and one node per component.
C11_FinalResolveAgreesWithValidate ==
    [][\A i \in 1..Len(flows) :
          (ResumeRevalidate(i) /\ FinalCheckOf(flows[i]).valid)
          => /\ page'.autoFixResult # Null
             /\ page'.autoFixResult[1].finalResolved # Null
             /\ Len(page'.autoFixResult[1].finalResolved[1].violations) = 0
             /\ Len(page'.autoFixResult[1].finalResolved[1].nodes)
                   = Len(flows[i].finalIntent.components)]_vars

-----------------------------------------------------------------------------
(* Claims about validate *)

\* the overlay as the specification words it
StatedOverlay(base, enabled) ==
    [k \in DOMAIN base |->
        IF k \notin DOMAIN enabled THEN base[k]
        ELSE IF k \in {"onlyOnePrimaryPerView", "ghostHasNoBackground", "secondaryUsesSurface"}
        THEN Bool(enabled[k])
        ELSE IF k = "maxPrimaryButtonsPerView"
        THEN (IF enabled[k] THEN Num(1) ELSE Undefined)
        ELSE IF k = "disabledOpacity"
        THEN (IF enabled[k] THEN Num(40) ELSE Undefined)
        ELSE base[k]]

\* C12: validate resolves against the base set overlaid with enabledConstraints
\* (booleans for the three flags, 1 or unset for maxPrimaryButtonsPerView, 0.4
\* or unset for disabledOpacity, base values for absent keys), returns that
\* resolution's violations, and valid is true exactly when they are empty.
C12_ValidateOverlay ==
    pc = "validated" =>
        /\ effectiveConstraints(constraints, enabledConstraints)
              = StatedOverlay(constraints, enabledConstraints)
        /\ validation.violations =
              resolveComponent(heap, intent, tokensData, contractData,
                               StatedOverlay(constraints, enabledConstraints)).violations
        /\ validation.valid <=> (Len(validation.violations) = 0)

C12_Witness ==
    /\ pc = "validated"
    /\ constraints.maxPrimaryButtonsPerView = Num(2)
    /\ "maxPrimaryButtonsPerView" \in DOMAIN enabledConstraints
    /\ enabledConstraints["maxPrimaryButtonsPerView"]
    /\ "disabledOpacity" \in DOMAIN enabledConstraints
    /\ ~enabledConstraints["disabledOpacity"]
    /\ "onlyOnePrimaryPerView" \notin DOMAIN enabledConstraints
    /\ Len(primaryButtons(heap, intent)) = 2
    /\ ~validation.valid

-----------------------------------------------------------------------------
(* Claims about violations without a repair strategy *)

\* C14: when no violation handed to suggestFixes carries constraintId
\* onlyOnePrimaryPerView or maxPrimaryButtonsPerView, the call returns an
\* empty fix list, for every intent and enabled-constraint map.
C14_NoStrategyNoFix ==
    (pc = "suggested"
     /\ ~NamedIn(violationsArg, "onlyOnePrimaryPerView")
     /\ ~NamedIn(violationsArg, "maxPrimaryButtonsPerView"))
    => fixes = <<>>

C14_Witness ==
    /\ pc = "suggested"
    /\ Len(violationsArg) = 2
    /\ \A i \in 1..Len(violationsArg) : violationsArg[i].code = "missingLabel"
    /\ Cardinality(PrimaryPositions(heap, intent)) >= 2
    /\ enabledConstraints = [k \in {"onlyOnePrimaryPerView", "maxPrimaryButtonsPerView"} |-> TRUE]
    /\ fixes = <<>>

-----------------------------------------------------------------------------
(* Claims about repeated resolution *)

-----------------------------------------------------------------------------
(* Claims about the trace of a resolved node *)

\* the source texts that name constraint id as active
ActiveSources(id) ==
    IF id = "disabledOpacity"
    THEN {"constraint(active): disabledOpacity"}
         \cup {"constraint(active): disabledOpacity=" \o ToString(n) : n \in 0..100}
    ELSE IF id = "secondaryUsesSurface"
    THEN {"constraint(active): secondaryUsesSurface -> token: color.surface"}
    ELSE {"constraint(active): ghostHasNoBackground"}

\* the constraint is set and active in the constraint set c
SetAndActive(id, c) ==
    IF id = "disabledOpacity" THEN c.disabledOpacity.t = "number"
    ELSE c[id] = Bool(TRUE)

\* C16 as stated: a trace entry whose source names constraint X as active
\* appears only when X is set and active in the constraint set of that
\* resolution.
C16_TraceNamesConsultedRules ==
    pc = "resolved" =>
        \A i \in 1..Len(view.nodes) :
            \A j \in 1..Len(view.nodes[i].trace) :
                \A id \in {"disabledOpacity", "secondaryUsesSurface", "ghostHasNoBackground"} :
                    view.nodes[i].trace[j].source \in ActiveSources(id)
                        => SetAndActive(id, constraints)

\* the order of the style keys as the specification words it
StatedKeyOrder ==
    <<"backgroundColor", "color", "padding", "fontSize", "fontWeight", "lineHeight",
      "borderRadius", "opacity", "cursor", "border">>

KeyRank(key) == CHOOSE r \in 1..Len(StatedKeyOrder) : StatedKeyOrder[r] = key

\* C17 as stated: in every resolved node the trace entries follow the one
\* order backgroundColor, color, padding, fontSize, fontWeight, lineHeight,
\* borderRadius, opacity, cursor, border (absent keys left out).
C17_FixedTraceOrder ==
    pc = "resolved" =>
        \A i \in 1..Len(view.nodes) :
            LET trace == view.nodes[i].trace
            IN  \A j \in 1..(Len(trace) - 1) :
                    KeyRank(trace[j].key) < KeyRank(trace[j + 1].key)

TraceEntries(node, key) == {j \in 1..Len(node.trace) : node.trace[j].key = key}

\* C18: a resolved node of variant secondary has exactly one border style and
\* exactly one border trace entry, with or without secondaryUsesSurface; a
\* node of another variant has no border.
C18_SecondaryBorderOnce ==
    pc = "resolved" =>
        \A i \in 1..Len(view.nodes) :
            LET node == view.nodes[i]
            IN  IF node.props.variant = Str("secondary")
                THEN /\ "border" \in DOMAIN node.styles
                     /\ Cardinality(TraceEntries(node, "border")) = 1
                ELSE /\ "border" \notin DOMAIN node.styles
                     /\ TraceEntries(node, "border") = {}

C18_Witness ==
    /\ pc = "resolved"
    /\ \E i, k \in 1..Len(view.nodes) :
          /\ view.nodes[i].props.variant = Str("secondary")
          /\ view.nodes[k].props.variant = Str("ghost")
    /\ constraints.secondaryUsesSurface = Bool(FALSE)

\* C19: a resolved node with props.disabled true has styles.opacity equal to
\* the constraint set's disabledOpacity and cursor not-allowed; one with
\* props.disabled false has no opacity key and cursor pointer.
C19_DisabledStyles ==
    pc = "resolved" =>
        \A i \in 1..Len(view.nodes) :
            LET node == view.nodes[i]
            IN  /\ node.props.disabled = Bool(TRUE) =>
                      /\ "opacity" \in DOMAIN node.styles
                      /\ node.styles["opacity"] = constraints.disabledOpacity
                      /\ node.styles["cursor"] = Str("not-allowed")
                /\ node.props.disabled = Bool(FALSE) =>
                      /\ "opacity" \notin DOMAIN node.styles
                      /\ node.styles["cursor"] = Str("pointer")

C19_Witness ==
    /\ pc = "resolved"
    /\ constraints.disabledOpacity = Num(40)
    /\ \E i, k \in 1..Len(view.nodes) :
          /\ view.nodes[i].props.disabled = Bool(TRUE)
          /\ view.nodes[i].styles["opacity"] = Num(40)
          /\ view.nodes[k].props.disabled = Bool(FALSE)

-----------------------------------------------------------------------------
(* C20: In the MCP call handler a call of validate, suggestFixes or applyFixes
   that lacks a required parameter ends in an InvalidParams error and the tool
   has not run; an unknown tool name ends in MethodNotFound; neither comes out
   as InternalError; a call of validate with both parameters whose viewSpec,
   a ParsedIntent, has more primary buttons than the enabled cardinality rule
   allows returns a result with valid = false and no error. *)

LacksRequired ==
    /\ request.name \in {"validate", "suggestFixes", "applyFixes"}
    /\ \E a \in requiredArgs(request.name) : a \notin request.args

\* the cardinality rule in force for a call of the validate tool
CardinalityInForce ==
    \/ /\ "maxPrimaryButtonsPerView" \in DOMAIN enabledConstraints
       /\ enabledConstraints["maxPrimaryButtonsPerView"]
    \/ /\ ~("maxPrimaryButtonsPerView" \in DOMAIN enabledConstraints
            /\ enabledConstraints["maxPrimaryButtonsPerView"])
       /\ IF "onlyOnePrimaryPerView" \in DOMAIN enabledConstraints
          THEN enabledConstraints["onlyOnePrimaryPerView"]
          ELSE constraints["onlyOnePrimaryPerView"] = Bool(TRUE)

ViolatingValidateCall ==
    /\ request.name = "validate"
    /\ requiredArgs("validate") \subseteq request.args
    /\ ~request.bare
    /\ CardinalityInForce
    /\ Cardinality({i \in 1..Len(intent.components) :
           Get(heap[intent.components[i]].props, "variant") = Str("primary")}) > 1

C20_McpErrors ==
    pc = "responded" =>
        /\ LacksRequired =>
              /\ response.kind = "error"
              /\ response.code = "InvalidParams"
              /\ ~response.ran
        /\ request.name \notin ToolNames =>
              /\ response.kind = "error"
              /\ response.code = "MethodNotFound"
        /\ ViolatingValidateCall =>
              /\ response.kind = "result"
              /\ response.result[1].valid = FALSE

C20_Witness ==
    /\ pc = "responded"
    /\ request.name = "suggestFixes"
    /\ request.args = {"viewSpec", "enabledConstraints"}
    /\ response.code = "InvalidParams"
    /\ ~response.ran

-----------------------------------------------------------------------------
(* C21: On the demo page, Run on the prompt of two primary buttons passes with
   two nodes while no pill is active, fails with empty nodes and a violation
   naming onlyOnePrimaryPerView while the onlyOnePrimaryPerView pill is the
   only pill, and passes again with two nodes once the pill is removed. *)

OnlyOnePill == [templateId |-> "onlyOnePrimaryPerView", value |-> Bool(TRUE)]

RunPasses(p) ==
    /\ p.status = "success"
    /\ p.resolvedView # Null
    /\ Len(p.resolvedView[1].nodes) = 2
    /\ p.resolvedView[1].violations = <<>>
    /\ p.errors = <<>>

RunFailsOnOnlyOne(p) ==
    /\ p.status = "error"
    /\ p.resolvedView # Null
    /\ p.resolvedView[1].nodes = <<>>
    /\ \E i \in 1..Len(p.resolvedView[1].violations) :
          p.resolvedView[1].violations[i].constraintId = "onlyOnePrimaryPerView"

C21_PillTogglesRun ==
    [][(handleRun /\ page.baseModel # Null /\ page.prompt = TwoPrimaryPrompt) =>
          /\ page.activeConstraints = <<>> => RunPasses(page')
          /\ page.activeConstraints = <<OnlyOnePill>> => RunFailsOnOnlyOne(page')]_vars

C21_Witness ==
    /\ page.prompt = TwoPrimaryPrompt
    /\ page.activeConstraints = <<>>
    /\ RunFailsOnOnlyOne(page)

-----------------------------------------------------------------------------
(* C22: parseIntent returns, for every prompt, an intent with one or two
   components, each of type Button with a non-empty label, a variant in
   {primary, secondary, ghost} and a size in {sm, md}. *)

C22_ParseTotal ==
    pc = "parsed" =>
        /\ Len(intent.components) \in {1, 2}
        /\ \A i \in 1..Len(intent.components) :
              LET c == heap[intent.components[i]]
              IN  /\ c.type = "Button"
                  /\ "label" \in DOMAIN c.props
                  /\ c.props.label.t = "string"
                  /\ c.props.label.s # ""
                  /\ c.props.variant.s \in {"primary", "secondary", "ghost"}
                  /\ c.props.size.s \in {"sm", "md"}

C22_Witness ==
    /\ pc = "parsed"
    /\ page.prompt = "Create one ghost button and a button"
    /\ Len(intent.components) = 2
    /\ heap[intent.components[1]].props.label = Str("Button 1")
    /\ heap[intent.components[2]].props.variant = Str("primary")

-----------------------------------------------------------------------------
(* C23: A view resolved without errors has one node per component, in order;
   the node at 0-based position i has the id button-<i> and the label,
   variant, size and disabled of component i.  The violations name the primary
   components by the same ids, and a fix of suggestFixes names its target by
   the id of the position its patch addresses. *)

PositionId(i) == "button-" \o ToString(i)

PrimaryAt == {i \in 0..(Len(intent.components) - 1) :
                 Get(heap[intent.components[i + 1]].props, "variant") = Str("primary")}

C23_NodeIdentity ==
    pc = "resolved" =>
        /\ view.errors = <<>> =>
              /\ Len(view.nodes) = Len(intent.components)
              /\ \A i \in 0..(Len(view.nodes) - 1) :
                    /\ view.nodes[i + 1].id = PositionId(i)
                    /\ \A k \in {"label", "variant", "size", "disabled"} :
                          view.nodes[i + 1].props[k] =
                              Get(heap[intent.components[i + 1]].props, k)
        /\ \A v \in Range(view.violations) :
              v.code = "multiplePrimaryButtons" =>
                  /\ Range(v.nodeIds) = {PositionId(i) : i \in PrimaryAt}
                  /\ Len(v.nodeIds) = Cardinality(PrimaryAt)
        /\ \A f \in Range(suggestFixes(heap, intent, view.violations,
                                       [k \in {"onlyOnePrimaryPerView",
                                               "maxPrimaryButtonsPerView"} |-> TRUE])) :
              \E i \in PrimaryAt :
                  /\ f.patches = <<[op |-> "replace",
                                    path |-> ComponentsPrefix \o Decimal(i) \o VariantSuffix,
                                    value |-> Str("secondary")]>>
                  /\ f.decisions[1].nodeId = PositionId(i)
                  /\ f.appliedConstraint.targets = <<PositionId(i)>>
                  /\ \E v \in Range(view.violations) : PositionId(i) \in Range(v.nodeIds)

C23_Witness ==
    /\ pc = "resolved"
    /\ view.errors = <<>>
    /\ Len(view.nodes) = 3
    /\ view.nodes[3].id = "button-2"
    /\ view.nodes[3].props.variant = Str("primary")

-----------------------------------------------------------------------------
(* Claims about the reported constraints and the repair rounds *)

PrimaryNodes(v) ==
    {i \in 1..Len(v.nodes) : v.nodes[i].props.variant = Str("primary")}

\* C24: whenever the view returned by resolveComponent has nodes and reports
\* enabledConstraints.onlyOnePrimaryPerView = true, at most one of its nodes
\* has variant primary, whatever else the constraint set holds.
C24_ReportedRuleEnforced ==
    (/\ pc = "resolved"
     /\ view.nodes # <<>>
     /\ "onlyOnePrimaryPerView" \in DOMAIN view.enabledConstraints
     /\ view.enabledConstraints.onlyOnePrimaryPerView)
        => Cardinality(PrimaryNodes(view)) <= 1

\* the primaries of the intent the first round started from: its objects are the
\* first of the heap and no call writes to them
InitialPrimaries ==
    {i \in 1..Len(intent.components) : Get(heap[i].props, "variant") = Str("primary")}

\* applyFixesToIntent allocates one copy of every component per call
AppliesSoFar == Len(heap) \div Len(intent.components) - 1

Least(S) == CHOOSE x \in S : \A y \in S : x <= y

\* C25: repeating validate, suggestFixes, applyFixes on an intent with k >= 2
\* primaries under onlyOnePrimaryPerView: every round with a non-empty fix list
\* lowers the number of primaries by exactly one and leaves the first primary in
\* place; validate reports a cardinality violation before round k - 1 is done and
\* none after exactly k - 1 rounds, where the fix list comes back empty and the
\* repetition ends (the cap on the rounds is never what ends it).
C25_RoundsTerminate ==
    [][Cardinality(InitialPrimaries) >= 2 =>
          /\ (pc = "suggested" /\ pc' = "applied" /\ fixes # <<>>) =>
                /\ Cardinality(PrimaryPositions(heap', updatedIntent')) =
                      Cardinality(PrimaryPositions(heap, intent)) - 1
                /\ Least(PrimaryPositions(heap', updatedIntent')) =
                      Least(InitialPrimaries)
                /\ AppliesSoFar' <= Cardinality(InitialPrimaries) - 1
          /\ pc' = "validated" =>
                (CardinalityViolations(validation') = <<>>
                    <=> AppliesSoFar' = Cardinality(InitialPrimaries) - 1)
          /\ pc' = "suggested" =>
                (fixes' = <<>> <=> CardinalityViolations(validation) = <<>>)]_vars

C25_Witness ==
    /\ pc = "validated"
    /\ Cardinality(InitialPrimaries) = 3
    /\ AppliesSoFar = 2
    /\ validation.valid
    /\ Ascending(PrimaryPositions(heap, intent)) = <<1>>

\* the variant at position i (from one) of applyFixesToIntent(intent, ps)
VariantAfter(ps, i) ==
    LET applied == applyFixesToIntent(heap, intent, ps)
    IN  Get(applied.heap[applied.intent.components[i]].props, "variant")

\* C26: every patch suggestFixes returns for an intent addresses an existing
\* position of that intent whose variant is primary, and nothing is returned
\* for an intent with fewer than two primaries; applied to the same intent,
\* alone or with the other returned patches, the patch turns the addressed
\* variant from primary into secondary.
C26_PatchesHitPrimaries ==
    pc = "suggested" =>
        /\ Cardinality(PrimaryPositions(heap, intent)) < 2 => fixes = <<>>
        /\ \A p \in Range(flatPatches(fixes)) :
              \E i \in PrimaryPositions(heap, intent) :
                  /\ p.op = "replace"
                  /\ p.path = ComponentsPrefix \o Decimal(i - 1) \o VariantSuffix
                  /\ VariantAfter(<<p>>, i) = Str("secondary")
                  /\ VariantAfter(flatPatches(fixes), i) = Str("secondary")

C26_Witness ==
    /\ pc = "suggested"
    /\ Ascending(PrimaryPositions(heap, intent)) = <<1, 3>>
    /\ Len(flatPatches(fixes)) = 2
    /\ VariantAfter(flatPatches(fixes), 3) = Str("secondary")
    /\ VariantAfter(flatPatches(fixes), 1) = Str("primary")

\* the component position (from 0) and the props field a patch addresses when
\* applyFixesToIntent honours it on an intent of n components
Addressed(p, n) ==
    LET parts == pathParts(p.path)
        ok    == /\ p.op = "replace"
                 /\ startsWith(p.path, ComponentsPrefix)
                 /\ Len(parts) >= 4
                 /\ ~parseInt(parts[2]).nan
                 /\ parseInt(parts[2]).n \in 0..(n - 1)
                 /\ parts[3] = <<"p", "r", "o", "p", "s">>
    IN  IF ok THEN [ok |-> TRUE, index |-> parseInt(parts[2]).n, field |-> Text(parts[4])]
        ELSE [ok |-> FALSE, index |-> 0, field |-> ""]

\* the patches of the list that address field k of position i (from 0)
Addressing(ps, i, k) ==
    {j \in 1..Len(ps) :
        LET a == Addressed(ps[j], Len(intent.components))
        IN  a.ok /\ a.index = i /\ a.field = k}

\* C27: for every patch list the intent returned by applyFixesToIntent has the
\* viewId, the number and order of components and each component's type of the
\* input, and every props field holds the value of the last honoured patch
\* that addresses it, or the input's value when none does.
C27_PatchFrame ==
    pc = "patched" =>
        /\ updatedIntent.viewId = intent.viewId
        /\ Len(updatedIntent.components) = Len(intent.components)
        /\ \A i \in 1..Len(intent.components) :
              LET before == heap[intent.components[i]]
                  after  == heap[updatedIntent.components[i]]
              IN  /\ after.type = before.type
                  /\ \A k \in DOMAIN before.props \cup DOMAIN after.props :
                        LET hits == Addressing(patches, i - 1, k)
                        IN  Get(after.props, k) =
                                IF hits = {} THEN Get(before.props, k)
                                ELSE patches[CHOOSE j \in hits : \A x \in hits : x <= j].value

C27_Witness ==
    /\ pc = "patched"
    /\ Len(patches) = 2
    /\ Addressing(patches, 1, "variant") = {1, 2}
    /\ patches[1].value = Str("secondary")
    /\ patches[2].value = Str("ghost")
    /\ Get(heap[intent.components[2]].props, "variant") = Str("primary")
    /\ Get(heap[updatedIntent.components[2]].props, "variant") = Str("ghost")
    /\ heap[updatedIntent.components[1]] = heap[intent.components[1]]

-----------------------------------------------------------------------------
(* Claims about the pills of the demo page *)

CardinalityPills(p) ==
    {i \in 1..Len(p.activeConstraints) :
        p.activeConstraints[i].templateId \in
            {"onlyOnePrimaryPerView", "maxPrimaryButtonsPerView"}}

\* C28: for every base constraint set and every list of active pills holding
\* neither the onlyOnePrimaryPerView pill nor the maxPrimaryButtonsPerView pill,
\* Run on the prompt of two primary buttons yields two nodes and no
\* multiplePrimaryButtons violation.
C28_NoCardinalityPillNoRule ==
    [][(/\ handleRun
        /\ page.baseModel # Null
        /\ page.prompt = TwoPrimaryPrompt
        /\ CardinalityPills(page) = {})
       => /\ page'.resolvedView # Null
          /\ Len(page'.resolvedView[1].nodes) = 2
          /\ CardinalityViolations(page'.resolvedView[1]) = <<>>]_vars

\* what the page shows of a run: the result and the step indicators
Shown(p) ==
    <<p.resolvedView, p.errors, p.status, p.autoFixResult, p.visibleSteps, p.currentStep>>

\* C29: the page shows the result of the most recently started action. Every
\* auto-fix start sets showAutoFixFlow and only Run clears it, so a suspended
\* flow on a page with showAutoFixFlow cleared was overtaken by a Run; none of
\* its later steps changes resolvedView, errors, status, autoFixResult or the
\* step indicators that the Run set.
C29_LatestActionWins ==
    [][\A i \in 1..Len(flows) :
          (/\ ~page.showAutoFixFlow
           /\ \/ ResumeValidate(i)
              \/ ResumeSuggest(i)
              \/ ResumeApply(i)
              \/ ResumeDecisions(i)
              \/ ResumeRevalidate(i))
          => Shown(page') = Shown(page)]_vars

\* C30: after any sequence of add-constraint, remove-constraint, update-value,
\* clear and add-defaults actions, the list of active pills holds at most one
\* pill per template id and every pill's template id is a template of the
\* catalog.
C30_PillsUnique ==
    /\ \A i, j \in 1..Len(page.activeConstraints) :
          page.activeConstraints[i].templateId = page.activeConstraints[j].templateId
              => i = j
    /\ \A i \in 1..Len(page.activeConstraints) :
          \E t \in 1..Len(BUTTON_CONSTRAINT_TEMPLATES) :
              BUTTON_CONSTRAINT_TEMPLATES[t].id = page.activeConstraints[i].templateId

\* all four pills, added in an order the add-defaults action produced, one edited
C30_Witness ==
    /\ Len(page.activeConstraints) = Len(BUTTON_CONSTRAINT_TEMPLATES)
    /\ page.activeConstraints[1].templateId = "maxPrimaryButtonsPerView"
    /\ page.activeConstraints[1].value = Num(2)
    /\ page.activeConstraints[2].templateId = "onlyOnePrimaryPerView"
    /\ page.activeConstraints[3].templateId = "disabledOpacity"

====
